---- MODULE Spec2Model ----
(***************************************************************************)
(* Model of the allocation-strategy engine of the memory-allocator         *)
(* simulator: the seven strategies derived from BaseAllocator (Linear,     *)
(* Stack, Pool, FreeList, RBTree/BestFit, Buddy, CAllocator), their block  *)
(* bookkeeping and their metrics.                                          *)
(*                                                                         *)
(* An allocator object is a record of its fields.  Every method is an      *)
(* operator from the object (and the call's arguments) to the object after *)
(* the call and the returned value; the actions apply the methods to the   *)
(* instance under test.  Blocks are records [id, address, size]; a free    *)
(* block carries id 0 (its synthetic 'free-...' id is never read).  The    *)
(* timestamp fields and the wall-clock averages (averageAllocationTime,    *)
(* averageDeallocationTime) depend only on the host clock and are left out.*)
(***************************************************************************)
EXTENDS Integers, Sequences, FiniteSets, TLC

----------------------------------------------------------------------------
(* Bounds of the model *)

\* arena capacity passed to every constructor (memorySize)
TotalSize == 128
\* number of request ids the caller issues (req-1 .. req-MaxIds)
MaxIds == 4

\* request sizes the caller draws from
Sizes == {1, 16, 48, 100}
Ids == 1..MaxIds

----------------------------------------------------------------------------
(* Program constants *)

POOL_BLOCK_SIZE == 64
MIN_BLOCK_SIZE == 16
MALLOC_HEADER == 16
SIZE_CLASSES == <<16, 32, 64, 128, 256, 512, 1024, 2048, 4096, 8192>>

LINEAR == "Linear"
STACK == "Stack"
POOL == "Pool"
FREE_LIST == "Free List"
RB_TREE == "RB Tree"
BUDDY == "Buddy"
C_ALLOCATOR == "C Allocator"
AllocatorType == {LINEAR, STACK, POOL, FREE_LIST, RB_TREE, BUDDY, C_ALLOCATOR}

----------------------------------------------------------------------------
(* Values and array helpers *)

\* the null a failed allocate returns
NullBlock == [id |-> 0, address |-> 0, size |-> 0]

Block(id, address, size) == [id |-> id, address |-> address, size |-> size]

\* a free block: { id: 'free-..', address, size, allocated: false }
FreeBlock(address, size) == [id |-> 0, address |-> address, size |-> size]

Max(x, y) == IF x >= y THEN x ELSE y
Min(x, y) == IF x <= y THEN x ELSE y

\* Array.prototype.splice(i0, 1) with a 0-based index
SpliceOut(s, i0) == SubSeq(s, 1, i0) \o SubSeq(s, i0 + 2, Len(s))

\* Array.prototype.splice(i0, 0, e) with a 0-based index
SpliceIn(s, i0, e) == SubSeq(s, 1, i0) \o <<e>> \o SubSeq(s, i0 + 1, Len(s))

\* Array.prototype.findIndex(block => block.size >= size): 0-based, -1 if none
FindIndexFits(s, size) ==
  LET fit == {i \in 1..Len(s) : s[i].size >= size}
  IN IF fit = {} THEN -1 ELSE (CHOOSE i \in fit : \A j \in fit : i <= j) - 1

\* reduce((sum, block) => sum + block.size, 0) over an array
RECURSIVE SumSizes(_)
SumSizes(s) == IF s = <<>> THEN 0 ELSE s[1].size + SumSizes(Tail(s))

\* Math.max(...blocks.map(b => b.size), 0)
RECURSIVE MaxSize(_)
MaxSize(s) == IF s = <<>> THEN 0 ELSE Max(s[1].size, MaxSize(Tail(s)))

\* reduce over the values of the allocatedBlocks map
RECURSIVE SumMap(_, _)
SumMap(m, ks) ==
  IF ks = {} THEN 0
  ELSE LET k == CHOOSE x \in ks : TRUE IN m[k].size + SumMap(m, ks \ {k})

AllocatedUsage(a) == SumMap(a.allocatedBlocks, DOMAIN a.allocatedBlocks)

\* Map.prototype.set(id, block)
MapSet(m, id, block) ==
  [k \in (DOMAIN m) \cup {id} |-> IF k = id THEN block ELSE m[k]]

\* Map.prototype.delete(id)
MapDelete(m, id) == [k \in (DOMAIN m) \ {id} |-> m[k]]

EmptyMap == [k \in {} |-> NullBlock]

----------------------------------------------------------------------------
(* BaseAllocator *)

ZeroMetrics ==
  [totalAllocations |-> 0, totalDeallocations |-> 0, currentMemoryUsage |-> 0,
   peakMemoryUsage |-> 0, fragmentation |-> 0, wastedSpace |-> 0,
   successRate |-> 0]

\* the fields BaseAllocator declares, before initialize() runs
BaseFields(totalSize) ==
  [totalSize |-> totalSize, freeBlocks |-> <<>>, allocatedBlocks |-> EmptyMap,
   metrics |-> ZeroMetrics]

\* updateMetrics(); the two percentages are kept as whole numbers (floor)
UpdateMetrics(a) ==
  LET cur == AllocatedUsage(a)
      freeSpace == SumSizes(a.freeBlocks)
      largestFreeBlock == MaxSize(a.freeBlocks)
      totalRequests == a.metrics.totalAllocations + a.metrics.totalDeallocations
  IN [a EXCEPT !.metrics =
        [@ EXCEPT !.currentMemoryUsage = cur,
                  !.peakMemoryUsage = Max(@, cur),
                  !.fragmentation =
                     IF freeSpace > 0
                     THEN ((freeSpace - largestFreeBlock) * 100) \div freeSpace
                     ELSE 0,
                  !.successRate =
                     IF totalRequests > 0
                     THEN (a.metrics.totalAllocations * 100) \div totalRequests
                     ELSE 100]]

\* the tail every successful allocate shares: this.metrics.totalAllocations++
CountAllocation(a) == [a EXCEPT !.metrics.totalAllocations = @ + 1]

\* the tail every successful deallocate shares: this.metrics.totalDeallocations++
CountDeallocation(a) == [a EXCEPT !.metrics.totalDeallocations = @ + 1]

Failed(a) == [a |-> a, ret |-> NullBlock]
Refused(a) == [a |-> a, ret |-> FALSE]

\* isOutOfMemory(requestSize): the answer, and the events it passes to
\* loggingService.logError.  No allocate method calls it.
IsOutOfMemory(a, requestSize) ==
  LET currentUsage == a.metrics.currentMemoryUsage
      wouldExceed == currentUsage + requestSize > a.totalSize
  IN [ret |-> wouldExceed,
      events |-> IF wouldExceed
                 THEN <<[requested |-> requestSize,
                         remaining |-> a.totalSize - currentUsage]>>
                 ELSE <<>>]

----------------------------------------------------------------------------
(* FreeListAllocator *)

FreeListInitialize(a) ==
  [a EXCEPT !.freeBlocks = <<FreeBlock(0, a.totalSize)>>]

\* mutation of InsertAndCoalesce: the successor is removed without adding its
\* size to the new block
InsertAndCoalesce_DropNext(fbs, newBlock) ==
  LET lower == {i \in 1..Len(fbs) : \A j \in 1..i : fbs[j].address < newBlock.address}
      insertIndex == Cardinality(lower)
      mergePrev == /\ insertIndex > 0
                   /\ fbs[insertIndex].address + fbs[insertIndex].size
                        = newBlock.address
      mergeNext == /\ insertIndex < Len(fbs)
                   /\ newBlock.address + newBlock.size = fbs[insertIndex + 1].address
  IN IF mergePrev
     THEN [fbs EXCEPT ![insertIndex].size = @ + newBlock.size]
     ELSE IF mergeNext
          THEN SpliceIn(SpliceOut(fbs, insertIndex), insertIndex, newBlock)
          ELSE SpliceIn(fbs, insertIndex, newBlock)

\* insertAndCoalesce(newBlock).  The code works on object references: after a
\* merge with the predecessor, newBlock IS the predecessor and insertIndex
\* points at it, so the "next block" it reads is that same object.
InsertAndCoalesce(fbs, newBlock) ==
  LET lower == {i \in 1..Len(fbs) : \A j \in 1..i : fbs[j].address < newBlock.address}
      insertIndex0 == Cardinality(lower)
      mergePrev == /\ insertIndex0 > 0
                   /\ fbs[insertIndex0].address + fbs[insertIndex0].size
                        = newBlock.address
      fbs1 == IF mergePrev
              THEN [fbs EXCEPT ![insertIndex0].size = @ + newBlock.size]
              ELSE fbs
      new1 == IF mergePrev THEN fbs1[insertIndex0] ELSE newBlock
      insertIndex == IF mergePrev THEN insertIndex0 - 1 ELSE insertIndex0
      mergeNext == /\ insertIndex < Len(fbs1)
                   /\ new1.address + new1.size = fbs1[insertIndex + 1].address
      new2 == IF mergeNext
              THEN [new1 EXCEPT !.size = @ + fbs1[insertIndex + 1].size]
              ELSE new1
      fbs2 == IF mergeNext THEN SpliceOut(fbs1, insertIndex) ELSE fbs1
      \* freeBlocks[insertIndex] === newBlock: only the merged predecessor,
      \* still in place, is the same object
      inPlace == mergePrev /\ ~mergeNext
  IN IF insertIndex >= Len(fbs2) \/ ~inPlace
     THEN SpliceIn(fbs2, insertIndex, new2)
     ELSE fbs2

\* mutation of FreeListAllocate: a split shrinks the free block but does not
\* advance its address
FreeListAllocate_KeepAddress(a, req) ==
  LET freeBlockIndex == FindIndexFits(a.freeBlocks, req.size)
      freeBlock == a.freeBlocks[freeBlockIndex + 1]
      block == Block(req.id, freeBlock.address, req.size)
      a1 == [a EXCEPT
               !.allocatedBlocks = MapSet(@, req.id, block),
               !.freeBlocks =
                  IF freeBlock.size > req.size
                  THEN [@ EXCEPT ![freeBlockIndex + 1] =
                          FreeBlock(freeBlock.address, freeBlock.size - req.size)]
                  ELSE SpliceOut(@, freeBlockIndex)]
  IN IF freeBlockIndex = -1 THEN Failed(a)
     ELSE [a |-> CountAllocation(a1), ret |-> block]

\* mutation of FreeListAllocate: the last free block that fits is taken
\* instead of the first
FreeListAllocate_LastFit(a, req) ==
  LET fits == {i \in 1..Len(a.freeBlocks) : a.freeBlocks[i].size >= req.size}
      freeBlockIndex == IF fits = {} THEN -1
                        ELSE (CHOOSE i \in fits : \A j \in fits : j <= i) - 1
      freeBlock == a.freeBlocks[freeBlockIndex + 1]
      block == Block(req.id, freeBlock.address, req.size)
      a1 == [a EXCEPT
               !.allocatedBlocks = MapSet(@, req.id, block),
               !.freeBlocks =
                  IF freeBlock.size > req.size
                  THEN [@ EXCEPT ![freeBlockIndex + 1] =
                          FreeBlock(freeBlock.address + req.size,
                                    freeBlock.size - req.size)]
                  ELSE SpliceOut(@, freeBlockIndex)]
  IN IF freeBlockIndex = -1 THEN Failed(a)
     ELSE [a |-> CountAllocation(a1), ret |-> block]

FreeListAllocate(a, req) ==
  LET freeBlockIndex == FindIndexFits(a.freeBlocks, req.size)
      freeBlock == a.freeBlocks[freeBlockIndex + 1]
      block == Block(req.id, freeBlock.address, req.size)
      a1 == [a EXCEPT
               !.allocatedBlocks = MapSet(@, req.id, block),
               !.freeBlocks =
                  IF freeBlock.size > req.size
                  THEN [@ EXCEPT ![freeBlockIndex + 1] =
                          FreeBlock(freeBlock.address + req.size,
                                    freeBlock.size - req.size)]
                  ELSE SpliceOut(@, freeBlockIndex)]
  IN IF freeBlockIndex = -1 THEN Failed(a)
     ELSE [a |-> CountAllocation(a1), ret |-> block]

FreeListDeallocate(a, blockId) ==
  IF blockId \notin DOMAIN a.allocatedBlocks THEN Refused(a)
  ELSE LET block == a.allocatedBlocks[blockId]
           a1 == [a EXCEPT
                    !.allocatedBlocks = MapDelete(@, blockId),
                    !.freeBlocks =
                       InsertAndCoalesce(@, FreeBlock(block.address, block.size))]
       IN [a |-> CountDeallocation(a1), ret |-> TRUE]

----------------------------------------------------------------------------
(* LinearAllocator *)

LinearInitialize(a) ==
  [a EXCEPT !.currentOffset = 0,
            !.freeBlocks = <<FreeBlock(0, a.totalSize)>>]

LinearAllocate(a, req) ==
  IF a.currentOffset + req.size > a.totalSize THEN Failed(a)
  ELSE LET block == Block(req.id, a.currentOffset, req.size)
           offset == a.currentOffset + req.size
           a1 == [a EXCEPT
                    !.currentOffset = offset,
                    !.allocatedBlocks = MapSet(@, req.id, block),
                    !.freeBlocks =
                       IF Len(@) > 0
                       THEN IF a.totalSize - offset <= 0 THEN <<>>
                            ELSE [@ EXCEPT ![1] =
                                    FreeBlock(offset, a.totalSize - offset)]
                       ELSE @]
       IN [a |-> CountAllocation(a1), ret |-> block]

LinearDeallocate(a, blockId) == Refused(a)

----------------------------------------------------------------------------
(* StackAllocator *)

\* updateFreeBlocks()
StackUpdateFreeBlocks(a) ==
  LET remainingSize == a.totalSize - a.currentTop
  IN [a EXCEPT !.freeBlocks =
        IF remainingSize > 0 THEN <<FreeBlock(a.currentTop, remainingSize)>>
        ELSE <<>>]

StackInitialize(a) ==
  [a EXCEPT !.stack = <<>>, !.currentTop = 0,
            !.freeBlocks = <<FreeBlock(0, a.totalSize)>>]

StackAllocate(a, req) ==
  IF a.currentTop + req.size > a.totalSize THEN Failed(a)
  ELSE LET block == Block(req.id, a.currentTop, req.size)
           a1 == [a EXCEPT
                    !.stack = Append(@, block),
                    !.currentTop = @ + req.size,
                    !.allocatedBlocks = MapSet(@, req.id, block)]
       IN [a |-> CountAllocation(StackUpdateFreeBlocks(a1)), ret |-> block]

\* mutation of StackDeallocate: any allocated block is released, wherever it
\* sits in the stack
RECURSIVE WithoutId(_, _)
WithoutId(s, blockId) ==
  IF s = <<>> THEN <<>>
  ELSE IF s[1].id = blockId THEN WithoutId(Tail(s), blockId)
       ELSE <<s[1]>> \o WithoutId(Tail(s), blockId)

StackDeallocate_AnyBlock(a, blockId) ==
  IF blockId \notin DOMAIN a.allocatedBlocks THEN Refused(a)
  ELSE LET a1 == [a EXCEPT
                    !.stack = WithoutId(@, blockId),
                    !.currentTop = @ - a.allocatedBlocks[blockId].size,
                    !.allocatedBlocks = MapDelete(@, blockId)]
       IN [a |-> CountDeallocation(StackUpdateFreeBlocks(a1)), ret |-> TRUE]

StackDeallocate(a, blockId) ==
  IF Len(a.stack) = 0 THEN Refused(a)
  ELSE LET topBlock == a.stack[Len(a.stack)]
       IN IF topBlock.id # blockId THEN Refused(a)
          ELSE LET a1 == [a EXCEPT
                            !.stack = SubSeq(@, 1, Len(@) - 1),
                            !.currentTop = @ - topBlock.size,
                            !.allocatedBlocks = MapDelete(@, blockId)]
               IN [a |-> CountDeallocation(StackUpdateFreeBlocks(a1)),
                   ret |-> TRUE]

----------------------------------------------------------------------------
(* PoolAllocator.  freeBlockIndices is a Set; a JavaScript Set iterates in  *)
(* insertion order, so it is kept as a sequence without duplicates.         *)

PoolInitialize(a) ==
  [a EXCEPT
     !.freeBlockIndices = [i \in 1..a.totalBlocks |-> i - 1],
     !.freeBlocks = [i \in 1..a.totalBlocks |->
                       FreeBlock((i - 1) * a.blockSize, a.blockSize)]]

\* Set.prototype.add(index)
SetAdd(s, index) ==
  IF \E i \in 1..Len(s) : s[i] = index THEN s ELSE Append(s, index)

\* Array.prototype.filter(b => b.address !== address)
RECURSIVE FilterAddress(_, _)
FilterAddress(s, address) ==
  IF s = <<>> THEN <<>>
  ELSE IF s[1].address # address
       THEN <<s[1]>> \o FilterAddress(Tail(s), address)
       ELSE FilterAddress(Tail(s), address)

\* mutation of PoolAllocate: the slot is taken from the free set before the
\* size of the request is checked
PoolAllocate_TakeFirst(a, req) ==
  IF Len(a.freeBlockIndices) = 0 THEN Failed(a)
  ELSE LET blockIndex == a.freeBlockIndices[1]
           block == Block(req.id, blockIndex * a.blockSize, a.blockSize)
           a0 == [a EXCEPT !.freeBlockIndices = Tail(@)]
           a1 == [a0 EXCEPT
                    !.allocatedBlocks = MapSet(@, req.id, block),
                    !.freeBlocks = FilterAddress(@, block.address),
                    !.metrics.wastedSpace = @ + (a.blockSize - req.size)]
       IN IF req.size > a.blockSize THEN Failed(a0)
          ELSE [a |-> CountAllocation(a1), ret |-> block]

\* mutation of PoolAllocate: the block handed out has the size requested
\* instead of the size of a slot
PoolAllocate_RequestSize(a, req) ==
  IF req.size > a.blockSize THEN Failed(a)
  ELSE IF Len(a.freeBlockIndices) = 0 THEN Failed(a)
  ELSE LET blockIndex == a.freeBlockIndices[1]
           block == Block(req.id, blockIndex * a.blockSize, req.size)
           a1 == [a EXCEPT
                    !.freeBlockIndices = Tail(@),
                    !.allocatedBlocks = MapSet(@, req.id, block),
                    !.freeBlocks = FilterAddress(@, block.address),
                    !.metrics.wastedSpace = @ + (a.blockSize - req.size)]
       IN [a |-> CountAllocation(a1), ret |-> block]

PoolAllocate(a, req) ==
  IF req.size > a.blockSize THEN Failed(a)
  ELSE IF Len(a.freeBlockIndices) = 0 THEN Failed(a)
  ELSE LET blockIndex == a.freeBlockIndices[1]
           block == Block(req.id, blockIndex * a.blockSize, a.blockSize)
           a1 == [a EXCEPT
                    !.freeBlockIndices = Tail(@),
                    !.allocatedBlocks = MapSet(@, req.id, block),
                    !.freeBlocks = FilterAddress(@, block.address),
                    !.metrics.wastedSpace = @ + (a.blockSize - req.size)]
       IN [a |-> CountAllocation(a1), ret |-> block]

PoolDeallocate(a, blockId) ==
  IF blockId \notin DOMAIN a.allocatedBlocks THEN Refused(a)
  ELSE LET block == a.allocatedBlocks[blockId]
           blockIndex == block.address \div a.blockSize
           a1 == [a EXCEPT
                    !.freeBlockIndices = SetAdd(@, blockIndex),
                    !.allocatedBlocks = MapDelete(@, blockId),
                    !.freeBlocks = Append(@, FreeBlock(block.address, a.blockSize))]
       IN [a |-> CountDeallocation(a1), ret |-> TRUE]

----------------------------------------------------------------------------
(* RBTreeAllocator (best fit over sortedFreeBlocks) *)

RBTreeInitialize(a) ==
  [a EXCEPT !.sortedFreeBlocks = <<FreeBlock(0, a.totalSize)>>,
            !.freeBlocks = <<FreeBlock(0, a.totalSize)>>]

\* mutation of BestFitIndex: the first block that fits, as first fit would
BestFitIndex_First(s, size) ==
  LET fit == {i \in 1..Len(s) : s[i].size >= size}
  IN IF fit = {} THEN -1
     ELSE (CHOOSE i \in fit : \A j \in fit : i <= j) - 1

\* the scan of allocate: the first block of the smallest sufficient size;
\* 0-based, -1 if none
BestFitIndex(s, size) ==
  LET fit == {i \in 1..Len(s) : s[i].size >= size}
  IN IF fit = {} THEN -1
     ELSE (CHOOSE i \in fit :
             /\ \A j \in fit : s[i].size <= s[j].size
             /\ \A j \in fit : s[j].size = s[i].size => i <= j) - 1

RBTreeInsertSortedAndCoalesce(fbs, newBlock) == InsertAndCoalesce(fbs, newBlock)

RBTreeAllocate(a, req) ==
  LET bestFitIndex == BestFitIndex(a.sortedFreeBlocks, req.size)
      freeBlock == a.sortedFreeBlocks[bestFitIndex + 1]
      block == Block(req.id, freeBlock.address, req.size)
      sorted == IF freeBlock.size > req.size
                THEN [a.sortedFreeBlocks EXCEPT ![bestFitIndex + 1] =
                        FreeBlock(freeBlock.address + req.size,
                                  freeBlock.size - req.size)]
                ELSE SpliceOut(a.sortedFreeBlocks, bestFitIndex)
      a1 == [a EXCEPT !.allocatedBlocks = MapSet(@, req.id, block),
                      !.sortedFreeBlocks = sorted,
                      !.freeBlocks = sorted]
  IN IF bestFitIndex = -1 THEN Failed(a)
     ELSE [a |-> CountAllocation(a1), ret |-> block]

RBTreeDeallocate(a, blockId) ==
  IF blockId \notin DOMAIN a.allocatedBlocks THEN Refused(a)
  ELSE LET block == a.allocatedBlocks[blockId]
           sorted == RBTreeInsertSortedAndCoalesce(
                       a.sortedFreeBlocks, FreeBlock(block.address, block.size))
           a1 == [a EXCEPT !.allocatedBlocks = MapDelete(@, blockId),
                           !.sortedFreeBlocks = sorted,
                           !.freeBlocks = sorted]
       IN [a |-> CountDeallocation(a1), ret |-> TRUE]

----------------------------------------------------------------------------
(* BuddyAllocator.  freeList is a Map from level to an array of blocks; a   *)
(* Map iterates in insertion order of its keys, so it is kept as a sequence *)
(* of entries [level, blocks].                                              *)

RECURSIVE Pow2(_)
Pow2(n) == IF n <= 0 THEN 1 ELSE 2 * Pow2(n - 1)

\* Math.ceil(Math.log2(n)) for n >= 1
RECURSIVE CeilLog2(_)
CeilLog2(n) == IF n <= 1 THEN 0 ELSE 1 + CeilLog2((n + 1) \div 2)

\* Math.log2(x / y) for powers of two x and y
Log2Ratio(x, y) == CeilLog2(x) - CeilLog2(y)

\* the bitwise ^ of two non-negative integers
RECURSIVE Xor(_, _)
Xor(x, y) ==
  IF x = 0 THEN y
  ELSE IF y = 0 THEN x
  ELSE 2 * Xor(x \div 2, y \div 2) + (((x % 2) + (y % 2)) % 2)

\* freeList.has(level)
LevelHas(m, level) == \E i \in 1..Len(m) : m[i].level = level

LevelIndex(m, level) == CHOOSE i \in 1..Len(m) : m[i].level = level

\* freeList.get(level), for a level the map has
LevelGet(m, level) == m[LevelIndex(m, level)].blocks

\* freeList.set(level, blocks)
LevelSet(m, level, blocks) ==
  IF LevelHas(m, level)
  THEN [m EXCEPT ![LevelIndex(m, level)].blocks = blocks]
  ELSE Append(m, [level |-> level, blocks |-> blocks])

\* if (!freeList.has(level)) freeList.set(level, []); freeList.get(level).push(b)
LevelPush(m, level, b) ==
  IF LevelHas(m, level)
  THEN LevelSet(m, level, Append(LevelGet(m, level), b))
  ELSE LevelSet(m, level, <<b>>)

\* Array.prototype.sort((a, b) => a.address - b.address): stable
RECURSIVE SortByAddress(_)
SortByAddress(s) ==
  IF s = <<>> THEN <<>>
  ELSE LET rest == SortByAddress(SubSeq(s, 1, Len(s) - 1))
           last == s[Len(s)]
           before == {i \in 1..Len(rest) : rest[i].address <= last.address}
           k == IF before = {} THEN 0
                ELSE CHOOSE i \in before : \A j \in before : j <= i
       IN SpliceIn(rest, k, last)

RECURSIVE ConcatLevels(_)
ConcatLevels(m) ==
  IF m = <<>> THEN <<>> ELSE m[1].blocks \o ConcatLevels(Tail(m))

\* updateFreeBlocksList()
BuddyUpdateFreeBlocksList(a) ==
  [a EXCEPT !.freeBlocks = SortByAddress(ConcatLevels(a.freeList))]

BuddyInitialize(a) ==
  [a EXCEPT
     !.freeList = <<[level |-> a.maxLevel,
                     blocks |-> <<FreeBlock(0, a.totalSize)>>]>>,
     !.freeBlocks = <<FreeBlock(0, a.totalSize)>>]

\* the while loop of findOrSplitBlock: each round pushes a buddy on the level
\* below and sets the block's size to the buddy's
RECURSIVE SplitDown(_, _, _, _, _)
SplitDown(m, totalSize, block, level, targetLevel) ==
  IF level > targetLevel
  THEN LET lv == level - 1
           buddySize == Pow2(CeilLog2(totalSize) - lv)
           buddy == FreeBlock(block.address + buddySize, buddySize)
       IN SplitDown(LevelPush(m, lv, buddy), totalSize,
                    [block EXCEPT !.size = buddySize], lv, targetLevel)
  ELSE [freeList |-> m, block |-> block]

\* findOrSplitBlock(targetLevel); block is NullBlock when it returns null
FindOrSplitBlock(a, targetLevel) ==
  LET found == {l \in targetLevel..a.maxLevel :
                  LevelHas(a.freeList, l) /\ Len(LevelGet(a.freeList, l)) > 0}
  IN IF found = {} THEN [freeList |-> a.freeList, block |-> NullBlock]
     ELSE LET level == CHOOSE l \in found : \A k \in found : l <= k
              blocks == LevelGet(a.freeList, level)
              block == blocks[Len(blocks)]
              popped == LevelSet(a.freeList, level,
                                 SubSeq(blocks, 1, Len(blocks) - 1))
          IN SplitDown(popped, a.totalSize, block, level, targetLevel)

BuddyRequiredSize(size) == Max(MIN_BLOCK_SIZE, Pow2(CeilLog2(size)))

BuddyAllocate(a, req) ==
  LET requiredSize == BuddyRequiredSize(req.size)
      level == Log2Ratio(a.totalSize, requiredSize)
  IN IF level < 0 \/ level > a.maxLevel THEN Failed(a)
     ELSE LET r == FindOrSplitBlock(a, level)
              allocatedBlock == Block(req.id, r.block.address, requiredSize)
              a1 == [a EXCEPT
                       !.freeList = r.freeList,
                       !.allocatedBlocks = MapSet(@, req.id, allocatedBlock),
                       !.metrics.wastedSpace = @ + (requiredSize - req.size)]
          IN IF r.block = NullBlock THEN Failed(a)
             ELSE [a |-> BuddyUpdateFreeBlocksList(CountAllocation(a1)),
                   ret |-> allocatedBlock]

\* mergeWithBuddy(block, level)
RECURSIVE MergeWithBuddy(_, _, _, _)
MergeWithBuddy(m, maxLevel, block, level) ==
  LET blockSize == block.size
      buddyAddress == Xor(block.address, blockSize)
  IN IF ~LevelHas(m, level) THEN LevelSet(m, level, <<block>>)
     ELSE LET blocks == LevelGet(m, level)
              hits == {i \in 1..Len(blocks) :
                         blocks[i].address = buddyAddress
                         /\ blocks[i].size = blockSize}
          IN IF hits # {}
             THEN LET buddyIndex == CHOOSE i \in hits : \A j \in hits : i <= j
                      buddy == blocks[buddyIndex]
                      m1 == LevelSet(m, level, SpliceOut(blocks, buddyIndex - 1))
                      mergedBlock ==
                        FreeBlock(Min(block.address, buddy.address), block.size * 2)
                  IN IF level < maxLevel
                     THEN MergeWithBuddy(m1, maxLevel, mergedBlock, level + 1)
                     ELSE LevelPush(m1, level + 1, mergedBlock)
             ELSE LevelSet(m, level, Append(blocks, block))

BuddyDeallocate(a, blockId) ==
  IF blockId \notin DOMAIN a.allocatedBlocks THEN Refused(a)
  ELSE LET block == a.allocatedBlocks[blockId]
           level == Log2Ratio(a.totalSize, block.size)
           a1 == [a EXCEPT
                    !.allocatedBlocks = MapDelete(@, blockId),
                    !.freeList =
                       MergeWithBuddy(@, a.maxLevel,
                                      FreeBlock(block.address, block.size), level)]
       IN [a |-> BuddyUpdateFreeBlocksList(CountDeallocation(a1)), ret |-> TRUE]

----------------------------------------------------------------------------
(* CAllocator.  freeListBySizeClass is a Map from size class to an array of *)
(* blocks: a function whose domain is the set of keys the map has.          *)

\* SIZE_CLASSES.find(sc => sc >= size) || null, with 0 for null
FindSizeClass(size) ==
  LET fit == {i \in 1..Len(SIZE_CLASSES) : SIZE_CLASSES[i] >= size}
  IN IF fit = {} THEN 0
     ELSE SIZE_CLASSES[CHOOSE i \in fit : \A j \in fit : i <= j]

CInitialize(a) ==
  [a EXCEPT
     !.freeListBySizeClass =
        [sc \in {SIZE_CLASSES[i] : i \in 1..Len(SIZE_CLASSES)} |-> <<>>],
     !.freeBlocks = <<FreeBlock(0, a.totalSize)>>]

\* findInSizeClass(sizeClass): the object after the call and the block popped
FindInSizeClass(a, sizeClass) ==
  IF sizeClass = 0 \/ sizeClass \notin DOMAIN a.freeListBySizeClass
  THEN [a |-> a, block |-> NullBlock]
  ELSE LET blocks == a.freeListBySizeClass[sizeClass]
       IN IF Len(blocks) > 0
          THEN [a |-> [a EXCEPT !.freeListBySizeClass[sizeClass] =
                         SubSeq(blocks, 1, Len(blocks) - 1)],
                block |-> blocks[Len(blocks)]]
          ELSE [a |-> a, block |-> NullBlock]

\* findInFreeList(size): first fit; the remainder of a split is pushed at the
\* end of freeBlocks
FindInFreeList(a, size) ==
  LET blockIndex == FindIndexFits(a.freeBlocks, size)
      freeBlock == a.freeBlocks[blockIndex + 1]
      pushed == IF freeBlock.size > size
                THEN Append(a.freeBlocks,
                            FreeBlock(freeBlock.address + size, freeBlock.size - size))
                ELSE a.freeBlocks
  IN IF blockIndex = -1 THEN [a |-> a, block |-> NullBlock]
     ELSE [a |-> [a EXCEPT !.freeBlocks = SpliceOut(pushed, blockIndex)],
           block |-> FreeBlock(freeBlock.address, Min(freeBlock.size, size))]

CInsertAndCoalesce(fbs, newBlock) == InsertAndCoalesce(fbs, newBlock)

\* allocate: the map entry keeps the size with the header, the block returned
\* carries the requested size
CAllocate(a, req) ==
  LET totalSize == req.size + MALLOC_HEADER
      sizeClass == FindSizeClass(totalSize)
      inClass == FindInSizeClass(a, sizeClass)
      r == IF inClass.block = NullBlock THEN FindInFreeList(a, totalSize)
           ELSE inClass
      allocatedBlock == Block(req.id, r.block.address, req.size)
      a1 == [r.a EXCEPT
               !.allocatedBlocks =
                  MapSet(@, req.id, Block(req.id, r.block.address, totalSize)),
               !.metrics.wastedSpace = @ + (totalSize - req.size)]
  IN IF r.block = NullBlock THEN Failed(a)
     ELSE [a |-> CountAllocation(a1), ret |-> allocatedBlock]

\* mutation of CDeallocate: the call is counted before the block is looked up
CDeallocate_CountFirst(a, blockId) ==
  IF blockId \notin DOMAIN a.allocatedBlocks THEN Refused(CountDeallocation(a))
  ELSE LET block == a.allocatedBlocks[blockId]
           freeBlock == FreeBlock(block.address, block.size)
           sizeClass == FindSizeClass(block.size)
           a0 == [a EXCEPT !.allocatedBlocks = MapDelete(@, blockId)]
           a1 == IF sizeClass # 0 /\ sizeClass \in DOMAIN a.freeListBySizeClass
                 THEN [a0 EXCEPT !.freeListBySizeClass[sizeClass] =
                         Append(@, freeBlock)]
                 ELSE [a0 EXCEPT !.freeBlocks = InsertAndCoalesce(@, freeBlock)]
       IN [a |-> CountDeallocation(a1), ret |-> TRUE]

CDeallocate(a, blockId) ==
  IF blockId \notin DOMAIN a.allocatedBlocks THEN Refused(a)
  ELSE LET block == a.allocatedBlocks[blockId]
           freeBlock == FreeBlock(block.address, block.size)
           sizeClass == FindSizeClass(block.size)
           a0 == [a EXCEPT !.allocatedBlocks = MapDelete(@, blockId)]
           a1 == IF sizeClass # 0 /\ sizeClass \in DOMAIN a.freeListBySizeClass
                 THEN [a0 EXCEPT !.freeListBySizeClass[sizeClass] =
                         Append(@, freeBlock)]
                 ELSE [a0 EXCEPT !.freeBlocks = CInsertAndCoalesce(@, freeBlock)]
       IN [a |-> CountDeallocation(a1), ret |-> TRUE]

----------------------------------------------------------------------------
(* Construction and reset.  The BaseAllocator constructor calls             *)
(* initialize() before the subclass's own field initializers and            *)
(* constructor body have run; those then overwrite what initialize() set.   *)

NewLinear(totalSize) ==
  [LinearInitialize(BaseFields(totalSize) @@ [currentOffset |-> 0])
     EXCEPT !.currentOffset = 0]

NewStack(totalSize) ==
  [StackInitialize(BaseFields(totalSize) @@ [stack |-> <<>>, currentTop |-> 0])
     EXCEPT !.stack = <<>>, !.currentTop = 0]

\* during super() totalBlocks is still undefined and `i < undefined` is false:
\* the loop of initialize() adds nothing, as with 0 blocks
NewPool(totalSize, blockSize) ==
  [PoolInitialize(BaseFields(totalSize)
                    @@ [blockSize |-> 0, totalBlocks |-> 0,
                        freeBlockIndices |-> <<>>])
     EXCEPT !.freeBlockIndices = <<>>,
            !.blockSize = blockSize,
            !.totalBlocks = totalSize \div blockSize]

NewFreeList(totalSize) == FreeListInitialize(BaseFields(totalSize))

NewRBTree(totalSize) ==
  [RBTreeInitialize(BaseFields(totalSize) @@ [sortedFreeBlocks |-> <<>>])
     EXCEPT !.sortedFreeBlocks = <<>>]

\* the constructor replaces the freeList initialize() filled by an empty Map
NewBuddy(totalSize) ==
  LET powerOfTwo == Pow2(CeilLog2(totalSize))
  IN [BuddyInitialize(BaseFields(powerOfTwo)
                        @@ [maxLevel |-> 0, freeList |-> <<>>])
        EXCEPT !.maxLevel = Log2Ratio(powerOfTwo, MIN_BLOCK_SIZE),
               !.freeList = <<>>]

NewC(totalSize) ==
  [CInitialize(BaseFields(totalSize) @@ [freeListBySizeClass |-> <<>>])
     EXCEPT !.freeListBySizeClass = <<>>]

\* SimulationEngine.initializeAllocators
NewAllocator(t) ==
  CASE t = LINEAR -> NewLinear(TotalSize)
    [] t = STACK -> NewStack(TotalSize)
    [] t = POOL -> NewPool(TotalSize, POOL_BLOCK_SIZE)
    [] t = FREE_LIST -> NewFreeList(TotalSize)
    [] t = RB_TREE -> NewRBTree(TotalSize)
    [] t = BUDDY -> NewBuddy(TotalSize)
    [] t = C_ALLOCATOR -> NewC(TotalSize)

\* the virtual call this.initialize()
Initialize(t, a) ==
  CASE t = LINEAR -> LinearInitialize(a)
    [] t = STACK -> StackInitialize(a)
    [] t = POOL -> PoolInitialize(a)
    [] t = FREE_LIST -> FreeListInitialize(a)
    [] t = RB_TREE -> RBTreeInitialize(a)
    [] t = BUDDY -> BuddyInitialize(a)
    [] t = C_ALLOCATOR -> CInitialize(a)

\* mutation of ResetAllocator: the metrics record is not replaced
ResetAllocator_KeepMetrics(t, a) ==
  Initialize(t, [a EXCEPT !.freeBlocks = <<>>,
                          !.allocatedBlocks = EmptyMap])

\* BaseAllocator.reset()
ResetAllocator(t, a) ==
  Initialize(t, [a EXCEPT !.freeBlocks = <<>>,
                          !.allocatedBlocks = EmptyMap,
                          !.metrics = ZeroMetrics])

----------------------------------------------------------------------------
(* WorkloadGenerator.  The id strings req-n, benchmark-i and fallback-t are  *)
(* kept as whole numbers of three disjoint ranges.  The values Math.random() *)
(* and Date.now() give are parameters of the operators; the actions draw     *)
(* them.                                                                     *)

RANDOM == "Random"
UNIFORM_SMALL == "Uniform Small"
UNIFORM_LARGE == "Uniform Large"
LIFO == "LIFO"
SHORT_LIVED == "Short Lived"
LONG_LIVED == "Long Lived"
POWER_OF_TWO == "Power of Two"

WorkloadType ==
  {RANDOM, UNIFORM_SMALL, UNIFORM_LARGE, LIFO, SHORT_LIVED, LONG_LIVED,
   POWER_OF_TWO}

\* a duration that is undefined, and one that is NaN; both are falsy
Undefined == -1
NaN == -2

\* `if (request.duration)`
Truthy(duration) == duration > 0

\* req-n is n, benchmark-i is -(i + 1), fallback-t lies below every benchmark id
ReqId(n) == n
BenchmarkId(i) == 0 - (i + 1)
FallbackId(now) == 0 - (1000000 + now)

AllocationRequest(id, size, timestamp, duration) ==
  [id |-> id, size |-> size, timestamp |-> timestamp, duration |-> duration]

NewWorkloadGenerator ==
  [requestCounter |-> 0, preGeneratedWorkload |-> <<>>, workloadIndex |-> 0,
   isUsingPregenerated |-> FALSE]

\* the values the size expression of generateRequest can take, among S
GenerateSizes(workloadType, S) ==
  CASE workloadType = RANDOM -> {s \in S : 16 <= s /\ s <= 1039}
    [] workloadType = UNIFORM_SMALL -> {s \in S : 32 <= s /\ s <= 63}
    [] workloadType = UNIFORM_LARGE -> {s \in S : 2048 <= s /\ s <= 4095}
    [] workloadType = LIFO -> {s \in S : 64 <= s /\ s <= 575}
    [] workloadType = SHORT_LIVED -> {s \in S : 32 <= s /\ s <= 287}
    [] workloadType = LONG_LIVED -> {s \in S : 256 <= s /\ s <= 2303}
    [] workloadType = POWER_OF_TWO ->
         S \cap {16, 32, 64, 128, 256, 512, 1024, 2048}
    [] OTHER -> {s \in S : 64 <= s /\ s <= 575}

\* the values the duration expression of generateRequest can take, among D
GenerateDurations(workloadType, D) ==
  CASE workloadType = RANDOM -> {d \in D : 1000 <= d /\ d <= 5999}
    [] workloadType = UNIFORM_SMALL -> {d \in D : 500 <= d /\ d <= 2499}
    [] workloadType = UNIFORM_LARGE -> {d \in D : 2000 <= d /\ d <= 11999}
    [] workloadType = LIFO -> {d \in D : 100 <= d /\ d <= 299}
    [] workloadType = SHORT_LIVED -> {d \in D : 100 <= d /\ d <= 599}
    [] workloadType = LONG_LIVED -> {d \in D : 10000 <= d /\ d <= 39999}
    [] workloadType = POWER_OF_TWO -> {d \in D : 1000 <= d /\ d <= 3999}
    [] OTHER -> {d \in D : 1000 <= d /\ d <= 2999}

\* generateRequest(workloadType), with the size and duration it draws
GenerateRequest(g, workloadType, now, size, duration) ==
  LET n == g.requestCounter + 1
  IN [g |-> [g EXCEPT !.requestCounter = n],
      ret |-> AllocationRequest(ReqId(n), size, now, duration)]

\* the values getRequestSize(workloadType) can return, among S
GetRequestSizes(workloadType, S) ==
  CASE workloadType = UNIFORM_SMALL -> {s \in S : 16 <= s /\ s <= 63}
    [] workloadType = UNIFORM_LARGE -> {s \in S : 1024 <= s /\ s <= 4095}
    [] workloadType = POWER_OF_TWO ->
         S \cap {16, 32, 64, 128, 256, 512, 1024, 2048, 4096}
    [] OTHER -> {s \in S : 16 <= s /\ s <= 4095}

\* the values getRequestDuration(workloadType) can return when the generator
\* is g, among D.  For LIFO the source computes
\* 2000 - workloadIndex * (2000 / length || 1): with length 0 the quotient
\* is Infinity and 0 * Infinity is NaN.
GetRequestDurations(g, workloadType, D) ==
  CASE workloadType = SHORT_LIVED -> {d \in D : 100 <= d /\ d <= 999}
    [] workloadType = LONG_LIVED -> {d \in D : 5000 <= d /\ d <= 9999}
    [] workloadType = LIFO ->
         IF Len(g.preGeneratedWorkload) = 0 THEN {NaN}
         ELSE {2000 - ((g.workloadIndex * 2000)
                         \div Len(g.preGeneratedWorkload))}
    [] OTHER -> {d \in D : 500 <= d /\ d <= 2999} \cup {Undefined}

\* the loop of preGenerateWorkload from iteration i on; sizes and durations
\* are the values drawn, one per iteration
RECURSIVE PreGenerateLoop(_, _, _, _, _, _)
PreGenerateLoop(g, count, now, i, sizes, durations) ==
  IF i < count
  THEN LET request == AllocationRequest(BenchmarkId(i), sizes[i + 1],
                                        now + i * 10, durations[i + 1])
       IN PreGenerateLoop(
            [g EXCEPT !.preGeneratedWorkload = Append(@, request)],
            count, now, i + 1, sizes, durations)
  ELSE g

\* what getRequestDuration can return in iteration i of preGenerateWorkload,
\* when i requests are stored and workloadIndex is 0
DurationsAt(workloadType, i, D) ==
  GetRequestDurations(
    [NewWorkloadGenerator EXCEPT !.preGeneratedWorkload = [k \in 1..i |-> 0]],
    workloadType, D)

\* the draws preGenerateWorkload can make: sizes[i + 1] and durations[i + 1]
\* are what getRequestSize and getRequestDuration return in iteration i
PreGenerateDraws(workloadType, count, S, D) ==
  {dr \in [sizes : [1..count -> GetRequestSizes(workloadType, S)],
           durations : [1..count ->
                          UNION {DurationsAt(workloadType, i, D) :
                                   i \in 0..(count - 1)}]] :
     \A i \in 0..(count - 1) :
       dr.durations[i + 1] \in DurationsAt(workloadType, i, D)}

PreGenerateWorkload(g, count, now, sizes, durations) ==
  PreGenerateLoop([g EXCEPT !.preGeneratedWorkload = <<>>,
                            !.workloadIndex = 0,
                            !.isUsingPregenerated = TRUE],
                  count, now, 0, sizes, durations)

ResetWorkload(g) == [g EXCEPT !.workloadIndex = 0]

\* WorkloadGenerator.reset()
GeneratorReset(g) == [g EXCEPT !.requestCounter = 0]

HasMoreOperations(g) ==
  g.isUsingPregenerated /\ g.workloadIndex < Len(g.preGeneratedWorkload)

\* mutation of GetNextOperation: the request handed out is removed from the
\* stored sequence and the cursor stays where it is
GetNextOperation_Consume(g, now, size, duration) ==
  IF ~g.isUsingPregenerated
     \/ g.workloadIndex >= Len(g.preGeneratedWorkload)
  THEN GenerateRequest(g, RANDOM, now, size, duration)
  ELSE [g |-> [g EXCEPT !.preGeneratedWorkload =
                 SpliceOut(@, g.workloadIndex)],
        ret |-> g.preGeneratedWorkload[g.workloadIndex + 1]]

\* getNextOperation(); size and duration are the draws of the fallback
GetNextOperation(g, now, size, duration) ==
  IF ~g.isUsingPregenerated
     \/ g.workloadIndex >= Len(g.preGeneratedWorkload)
  THEN GenerateRequest(g, RANDOM, now, size, duration)
  ELSE [g |-> [g EXCEPT !.workloadIndex = @ + 1],
        ret |-> g.preGeneratedWorkload[g.workloadIndex + 1]]

\* generate(workloadType)
Generate(g, workloadType, now, size, duration) ==
  IF g.isUsingPregenerated
  THEN IF g.workloadIndex >= Len(g.preGeneratedWorkload)
       THEN [g |-> g,
             ret |-> AllocationRequest(FallbackId(now), 16, now, 100)]
       ELSE [g |-> [g EXCEPT !.workloadIndex = @ + 1],
             ret |-> g.preGeneratedWorkload[g.workloadIndex + 1]]
  ELSE GenerateRequest(g, workloadType, now, size, duration)

\* getCurrentRequest(), with NullRequest for null
NullRequest == AllocationRequest(0, 0, 0, Undefined)

GetCurrentRequest(g) ==
  IF ~g.isUsingPregenerated \/ g.workloadIndex <= 0
     \/ g.workloadIndex > Len(g.preGeneratedWorkload)
  THEN NullRequest
  ELSE g.preGeneratedWorkload[g.workloadIndex]

----------------------------------------------------------------------------
(* SmartEdgeAlloc.  A score s of the source is kept as the whole number      *)
(* s * 20^5: every weight and every factor of the source is a multiple of    *)
(* 0.05, and a score is a weight times four factors.  averageAllocationTime  *)
(* is kept in hundredths of a millisecond.  The reasoning strings of a score *)
(* are left out.                                                             *)

SMART_EDGE_ALLOC == "SmartEdgeAlloc"

\* Object.values(AllocatorType)
AllocatorTypeValues ==
  <<LINEAR, STACK, POOL, FREE_LIST, RB_TREE, BUDDY, C_ALLOCATOR,
    SMART_EDGE_ALLOC>>

\* 1.0 as a score
ScoreOne == 3200000

\* WORKLOAD_WEIGHTS[workloadType] in twentieths, in the order of
\* AllocatorTypeValues
WORKLOAD_WEIGHTS(workloadType) ==
  CASE workloadType = RANDOM -> <<4, 6, 8, 16, 14, 12, 18, 20>>
    [] workloadType = UNIFORM_SMALL -> <<6, 8, 19, 12, 10, 16, 14, 20>>
    [] workloadType = UNIFORM_LARGE -> <<18, 10, 4, 14, 14, 16, 12, 20>>
    [] workloadType = LIFO -> <<16, 19, 12, 10, 8, 8, 10, 20>>
    [] workloadType = SHORT_LIVED -> <<17, 18, 16, 12, 10, 8, 10, 20>>
    [] workloadType = LONG_LIVED -> <<12, 6, 10, 18, 17, 14, 16, 20>>
    [] workloadType = POWER_OF_TWO -> <<6, 8, 16, 14, 14, 19, 12, 20>>

\* WORKLOAD_WEIGHTS[workloadType][allocatorType] || 0.5, for the i-th type
BaseScore(workloadType, i) ==
  IF WORKLOAD_WEIGHTS(workloadType)[i] = 0 THEN 10
  ELSE WORKLOAD_WEIGHTS(workloadType)[i]

\* currentMemoryUsage / (currentMemoryUsage + wastedSpace || 1) as the pair
\* numerator, denominator
MemoryEfficiency(metrics) ==
  LET sum == metrics.currentMemoryUsage + metrics.wastedSpace
  IN [num |-> metrics.currentMemoryUsage,
      den |-> IF sum = 0 THEN 1 ELSE sum]

\* Math.max(0, Math.min(1, adjustedScore))
Clamp(adjustedScore) == Max(0, Min(ScoreOne, adjustedScore))

\* the four factors of selectOptimalAllocator, in twentieths
SelectFactors(metrics) ==
  LET e == MemoryEfficiency(metrics)
  IN <<IF metrics.fragmentation > 30 THEN 12
       ELSE IF metrics.fragmentation < 10 THEN 24 ELSE 20,
       IF metrics.successRate < 95 THEN 14
       ELSE IF metrics.successRate > 98 THEN 23 ELSE 20,
       IF e.num * 10 > 9 * e.den THEN 24
       ELSE IF e.num * 10 < 7 * e.den THEN 16 ELSE 20,
       IF metrics.averageAllocationTime < 10 THEN 22
       ELSE IF metrics.averageAllocationTime > 50 THEN 18 ELSE 20>>

\* the four factors of getAllocatorScores, in twentieths
ScoreFactors(metrics) ==
  LET e == MemoryEfficiency(metrics)
  IN <<IF metrics.fragmentation > 50 THEN 14
       ELSE IF metrics.fragmentation < 10 THEN 22 ELSE 20,
       IF metrics.successRate < 90 THEN 16
       ELSE IF metrics.successRate > 95 THEN 21 ELSE 20,
       IF e.num * 10 > 9 * e.den THEN 22
       ELSE IF e.num * 10 < 7 * e.den THEN 18 ELSE 20,
       IF metrics.averageAllocationTime < 10 THEN 21
       ELSE IF metrics.averageAllocationTime > 100 THEN 19 ELSE 20>>

\* no metrics in the map: `if (metrics)` is false and nothing is adjusted
NoFactors == <<20, 20, 20, 20>>

AdjustedScore(baseScore, f) == baseScore * f[1] * f[2] * f[3] * f[4]

AllocatorScore(allocator, score) == [allocator |-> allocator, score |-> score]

\* Array.prototype.sort((a, b) => b.score - a.score): stable, so an element
\* goes behind the elements that score at least as much
RECURSIVE InsertByScore(_, _)
InsertByScore(sorted, e) ==
  IF sorted = <<>> THEN <<e>>
  ELSE IF sorted[1].score >= e.score
       THEN <<sorted[1]>> \o InsertByScore(Tail(sorted), e)
       ELSE <<e>> \o sorted

RECURSIVE SortByScore(_)
SortByScore(scores) ==
  IF scores = <<>> THEN <<>>
  ELSE InsertByScore(SortByScore(SubSeq(scores, 1, Len(scores) - 1)),
                     scores[Len(scores)])

\* mutation of GetAllocatorScores: the adjusted score is not clamped
GetAllocatorScores_NoClamp(workloadType, metricsMap) ==
  SortByScore(
    [i \in 1..Len(AllocatorTypeValues) |->
       LET allocatorType == AllocatorTypeValues[i]
           f == IF allocatorType \in DOMAIN metricsMap
                THEN ScoreFactors(metricsMap[allocatorType])
                ELSE NoFactors
       IN AllocatorScore(allocatorType,
                         AdjustedScore(BaseScore(workloadType, i), f))])

\* getAllocatorScores(workloadType, metricsMap)
GetAllocatorScores(workloadType, metricsMap) ==
  SortByScore(
    [i \in 1..Len(AllocatorTypeValues) |->
       LET allocatorType == AllocatorTypeValues[i]
           f == IF allocatorType \in DOMAIN metricsMap
                THEN ScoreFactors(metricsMap[allocatorType])
                ELSE NoFactors
       IN AllocatorScore(allocatorType,
                         Clamp(AdjustedScore(BaseScore(workloadType, i), f)))])

\* selectOptimalAllocator(workloadType, metricsMap)
SelectOptimalAllocator(workloadType, metricsMap) ==
  SortByScore(
    [i \in 1..Len(AllocatorTypeValues) |->
       LET allocatorType == AllocatorTypeValues[i]
           f == IF allocatorType \in DOMAIN metricsMap
                THEN SelectFactors(metricsMap[allocatorType])
                ELSE NoFactors
       IN AllocatorScore(allocatorType,
                         Clamp(AdjustedScore(BaseScore(workloadType, i), f)))])[1]

----------------------------------------------------------------------------
(* SimulationEngine.  An operation takes the engine e and the window v it    *)
(* runs in (the interval timers pending, the clock Date.now() reads) and     *)
(* gives the pair after the call.  speed is kept in tenths, demoProgress in  *)
(* hundredths of a percent.                                                  *)

\* the virtual call allocator.allocate(request)
Allocate(t, a, req) ==
  CASE t = LINEAR -> LinearAllocate(a, req)
    [] t = STACK -> StackAllocate(a, req)
    [] t = POOL -> PoolAllocate(a, req)
    [] t = FREE_LIST -> FreeListAllocate(a, req)
    [] t = RB_TREE -> RBTreeAllocate(a, req)
    [] t = BUDDY -> BuddyAllocate(a, req)
    [] t = C_ALLOCATOR -> CAllocate(a, req)

\* the virtual call allocator.deallocate(blockId)
Deallocate(t, a, blockId) ==
  CASE t = LINEAR -> LinearDeallocate(a, blockId)
    [] t = STACK -> StackDeallocate(a, blockId)
    [] t = POOL -> PoolDeallocate(a, blockId)
    [] t = FREE_LIST -> FreeListDeallocate(a, blockId)
    [] t = RB_TREE -> RBTreeDeallocate(a, blockId)
    [] t = BUDDY -> BuddyDeallocate(a, blockId)
    [] t = C_ALLOCATOR -> CDeallocate(a, blockId)

\* null, for intervalId and for currentDemoAllocator
NullTimer == 0
NullAllocator == "null"

\* the metrics an allocator reports: the record of the model and the
\* average of the times allocate measured, which are all allocTime
MetricsOf(a, allocTime) ==
  [totalAllocations |-> a.metrics.totalAllocations,
   totalDeallocations |-> a.metrics.totalDeallocations,
   currentMemoryUsage |-> a.metrics.currentMemoryUsage,
   peakMemoryUsage |-> a.metrics.peakMemoryUsage,
   fragmentation |-> a.metrics.fragmentation,
   wastedSpace |-> a.metrics.wastedSpace,
   successRate |-> a.metrics.successRate,
   averageAllocationTime |->
     IF a.metrics.totalAllocations > 0 THEN allocTime ELSE 0]

NewSimulationState ==
  [isRunning |-> FALSE, currentTime |-> 0, workloadType |-> RANDOM,
   selectedAllocator |-> FREE_LIST, smartMode |-> TRUE, speed |-> 10,
   demoMode |-> FALSE, currentDemoAllocator |-> NullAllocator,
   demoPhase |-> "individual", demoProgress |-> 0]

\* new SimulationEngine()
NewEngine ==
  [allocators |-> [t \in AllocatorType |-> NewAllocator(t)],
   workloadGenerator |-> NewWorkloadGenerator,
   activeRequests |-> <<>>,
   simulationState |-> NewSimulationState,
   intervalId |-> NullTimer,
   fastBenchmarkMode |-> TRUE,
   smartSelections |-> <<>>,
   successfulAllocations |-> 0,
   failedAllocations |-> 0,
   demoResults |-> [t \in {} |-> 0]]

\* the window before the engine has set a timer
NewWindow(allocTime) ==
  [timers |-> {}, clock |-> 0, demos |-> 0, allocTime |-> allocTime]

\* Math.max(50, 1000 / speed), speed in tenths
Interval(speed) == Max(50, 10000 \div speed)

\* window.setInterval: an id no pending timer has
SetInterval(v, period) ==
  LET used == {tm.id : tm \in v.timers}
      id == CHOOSE i \in 1..(Cardinality(used) + 1) : i \notin used
  IN [v |-> [v EXCEPT !.timers = @ \cup {[id |-> id, period |-> period]}],
      id |-> id]

\* clearInterval(id)
ClearInterval(v, id) ==
  [v EXCEPT !.timers = {tm \in @ : tm.id # id}]

\* mutation of EngineStart: a timer is set even when the engine is running
EngineStart_Always(e, v) ==
  LET r == SetInterval(v, Interval(e.simulationState.speed))
  IN [e |-> [e EXCEPT !.simulationState.isRunning = TRUE,
                      !.intervalId = r.id],
      v |-> r.v]

\* start()
EngineStart(e, v) ==
  IF e.simulationState.isRunning THEN [e |-> e, v |-> v]
  ELSE LET r == SetInterval(v, Interval(e.simulationState.speed))
       IN [e |-> [e EXCEPT !.simulationState.isRunning = TRUE,
                           !.intervalId = r.id],
           v |-> r.v]

\* stop()
EngineStop(e, v) ==
  IF e.intervalId # NullTimer
  THEN [e |-> [e EXCEPT !.simulationState.isRunning = FALSE,
                        !.intervalId = NullTimer],
        v |-> ClearInterval(v, e.intervalId)]
  ELSE [e |-> [e EXCEPT !.simulationState.isRunning = FALSE], v |-> v]

\* reset()
EngineReset(e, v) ==
  LET s == EngineStop(e, v)
  IN [e |-> [s.e EXCEPT
               !.allocators = [t \in AllocatorType |-> ResetAllocator(t, @[t])],
               !.activeRequests = <<>>,
               !.workloadGenerator = GeneratorReset(@),
               !.simulationState.currentTime = 0,
               !.successfulAllocations = 0,
               !.failedAllocations = 0],
      v |-> s.v]

\* setSpeed(speed), speed in tenths
SetSpeed(e, v, speed) ==
  LET e1 == [e EXCEPT !.simulationState.speed = Max(1, Min(100, speed))]
  IN IF e1.simulationState.isRunning
     THEN LET s == EngineStop(e1, v) IN EngineStart(s.e, s.v)
     ELSE [e |-> e1, v |-> v]

\* an entry of the activeRequests Map, with its key
ActiveRequest(request, expiryTime, allocator) ==
  [id |-> request.id, request |-> request, expiryTime |-> expiryTime,
   allocator |-> allocator]

\* Map.prototype.set: a key the map has keeps its place
ActiveSet(entries, entry) ==
  IF \E i \in 1..Len(entries) : entries[i].id = entry.id
  THEN [i \in 1..Len(entries) |->
          IF entries[i].id = entry.id THEN entry ELSE entries[i]]
  ELSE Append(entries, entry)

\* setSelectedAllocator(allocator)
SetSelectedAllocator(e, v, allocator) ==
  [e |-> [e EXCEPT !.simulationState.selectedAllocator = allocator], v |-> v]

\* setSmartMode(enabled)
SetSmartMode(e, v, enabled) ==
  [e |-> [e EXCEPT !.simulationState.smartMode = enabled], v |-> v]

\* setFastBenchmarkMode(enabled)
SetFastBenchmarkMode(e, v, enabled) ==
  [e |-> [e EXCEPT !.fastBenchmarkMode = enabled], v |-> v]

\* getAllocatorMetrics(): getMetrics() refreshes the metrics of each allocator
RefreshAll(e) ==
  [e EXCEPT !.allocators = [t \in AllocatorType |-> UpdateMetrics(@[t])]]

GetAllocatorMetrics(e, allocTime) ==
  [t \in AllocatorType |-> MetricsOf(RefreshAll(e).allocators[t], allocTime)]

\* the metrics the smart phase starts from when demoResults has no entry
ZeroSmartMetrics ==
  [totalAllocations |-> 0, totalDeallocations |-> 0, currentMemoryUsage |-> 0,
   peakMemoryUsage |-> 0, fragmentation |-> 0, averageAllocationTime |-> 0,
   wastedSpace |-> 0, successRate |-> 0]

\* the body of the forEach of cleanupExpiredRequests for one expired entry
ExpireEntry(e, entry) ==
  IF e.simulationState.demoMode
  THEN IF entry.allocator \in AllocatorType
       THEN LET r == Deallocate(entry.allocator,
                                e.allocators[entry.allocator], entry.id)
                e1 == [e EXCEPT !.allocators[entry.allocator] = r.a]
            IN IF e.simulationState.demoPhase = "smart"
                  /\ SMART_EDGE_ALLOC \in DOMAIN e.demoResults
               THEN [e1 EXCEPT
                       !.demoResults[SMART_EDGE_ALLOC] =
                          [@ EXCEPT
                             !.totalDeallocations = @ + 1,
                             !.currentMemoryUsage =
                                IF entry.id \in DOMAIN r.a.allocatedBlocks
                                THEN @ - r.a.allocatedBlocks[entry.id].size
                                ELSE @]]
               ELSE e1
       ELSE e
  ELSE [e EXCEPT !.allocators =
          [t \in AllocatorType |-> Deallocate(t, @[t], entry.id).a]]

RECURSIVE ExpireLoop(_, _, _)
ExpireLoop(e, entries, now) ==
  IF entries = <<>> THEN e
  ELSE ExpireLoop(IF now >= entries[1].expiryTime
                  THEN ExpireEntry(e, entries[1]) ELSE e,
                  Tail(entries), now)

RECURSIVE Unexpired(_, _)
Unexpired(entries, now) ==
  IF entries = <<>> THEN <<>>
  ELSE IF now >= entries[1].expiryTime THEN Unexpired(Tail(entries), now)
       ELSE <<entries[1]>> \o Unexpired(Tail(entries), now)

\* cleanupExpiredRequests()
CleanupExpiredRequests(e) ==
  LET now == e.simulationState.currentTime
  IN [ExpireLoop(e, e.activeRequests, now)
        EXCEPT !.activeRequests = Unexpired(e.activeRequests, now)]

\* processAllocationRequest(request)
ProcessAllocationRequest(e, request) ==
  [e EXCEPT
     !.allocators =
        [t \in AllocatorType |-> UpdateMetrics(Allocate(t, @[t], request).a)],
     !.activeRequests =
        IF Truthy(request.duration)
        THEN ActiveSet(@, ActiveRequest(request,
                                        request.timestamp + request.duration,
                                        NullAllocator))
        ELSE @]

\* updateSmartSelection()
UpdateSmartSelection(e, allocTime) ==
  LET optimalSelection ==
        SelectOptimalAllocator(e.simulationState.workloadType,
                               GetAllocatorMetrics(e, allocTime))
  IN [RefreshAll(e) EXCEPT
        !.simulationState.selectedAllocator = optimalSelection.allocator]

\* resetCurrentAllocator()
ResetCurrentAllocator(e) ==
  LET t == e.simulationState.currentDemoAllocator
  IN IF t \in AllocatorType
     THEN [e EXCEPT !.allocators[t] = ResetAllocator(t, @)]
     ELSE e

\* Map.prototype.set on demoResults
ResultsSet(results, t, metrics) ==
  [k \in (DOMAIN results) \cup {t} |-> IF k = t THEN metrics ELSE results[k]]

\* mutation of IndexOfType: indexOf finds no type
IndexOfType_NotFound(t) == 0 - 1

\* Array.prototype.indexOf on Object.values(AllocatorType), from 0
IndexOfType(t) ==
  IF \E i \in 1..Len(AllocatorTypeValues) : AllocatorTypeValues[i] = t
  THEN (CHOOSE i \in 1..Len(AllocatorTypeValues) : AllocatorTypeValues[i] = t) - 1
  ELSE -1

\* getProgressPercentage() times 5000: half of the progress scale
HalfProgress(g) ==
  IF ~g.isUsingPregenerated \/ Len(g.preGeneratedWorkload) = 0 THEN 0
  ELSE (Min(Len(g.preGeneratedWorkload), g.workloadIndex) * 5000)
         \div Len(g.preGeneratedWorkload)

\* the sum of a field of the records of demoResults
RECURSIVE SumField(_, _, _)
SumField(results, ks, field) ==
  IF ks = {} THEN 0
  ELSE LET k == CHOOSE x \in ks : TRUE
       IN results[k][field] + SumField(results, ks \ {k}, field)

\* generateDemoComparison(): the metrics made up when the smart phase left
\* none; the values are whole numbers (floor) and every Math.random() is 0
GenerateDemoComparison(e) ==
  IF SMART_EDGE_ALLOC \in DOMAIN e.demoResults THEN e
  ELSE LET ks == DOMAIN e.demoResults
           count == Cardinality(ks)
           avg(field) == IF count > 0
                         THEN SumField(e.demoResults, ks, field) \div count
                         ELSE 0
       IN [e EXCEPT !.demoResults =
             ResultsSet(@, SMART_EDGE_ALLOC,
               [totalAllocations |-> 0,
                totalDeallocations |-> 0,
                currentMemoryUsage |-> (avg("currentMemoryUsage") * 97) \div 100,
                peakMemoryUsage |-> (avg("currentMemoryUsage") * 97) \div 100,
                fragmentation |-> (avg("fragmentation") * 96) \div 100,
                averageAllocationTime |->
                  (avg("averageAllocationTime") * 97) \div 100,
                wastedSpace |-> (avg("currentMemoryUsage") * 3) \div 100,
                successRate |-> Min(100, (avg("successRate") * 102) \div 100)])]

\* the loop of the complete branch: the final metrics of every allocator
CollectFinalMetrics(e, allocTime) ==
  LET e1 == RefreshAll(e)
  IN [e1 EXCEPT !.demoResults =
        [k \in (DOMAIN @) \cup AllocatorType |->
           IF k \in AllocatorType THEN MetricsOf(e1.allocators[k], allocTime)
           ELSE @[k]]]

\* advanceDemoSequence()
AdvanceDemoSequence(e, allocTime) ==
  LET cur == e.simulationState.currentDemoAllocator
      e1 == IF cur \in AllocatorType
            THEN LET a == UpdateMetrics(e.allocators[cur])
                 IN [e EXCEPT !.allocators[cur] = a,
                              !.demoResults =
                                 ResultsSet(@, cur, MetricsOf(a, allocTime))]
            ELSE e
      currentIndex == IndexOfType(cur)
      phase == e.simulationState.demoPhase
      e2 == [e1 EXCEPT !.simulationState.demoProgress =
               IF phase = "individual"
               THEN ((currentIndex + 1) * 5000) \div Len(AllocatorTypeValues)
               ELSE IF phase = "smart"
                    THEN 5000 + HalfProgress(e.workloadGenerator)
                    ELSE @]
  IN IF currentIndex < Len(AllocatorTypeValues) - 1 /\ phase = "individual"
     THEN LET next == AllocatorTypeValues[currentIndex + 2]
              e3 == [e2 EXCEPT !.simulationState.currentDemoAllocator = next,
                               !.simulationState.selectedAllocator = next]
          IN [ResetCurrentAllocator(e3) EXCEPT
                !.workloadGenerator = ResetWorkload(@)]
     ELSE IF phase = "individual"
     THEN [e2 EXCEPT
             !.simulationState.demoPhase = "smart",
             !.simulationState.demoProgress = 5000,
             !.simulationState.smartMode = TRUE,
             !.simulationState.currentDemoAllocator = NullAllocator,
             !.allocators = [t \in AllocatorType |-> ResetAllocator(t, @[t])],
             !.workloadGenerator = ResetWorkload(@)]
     ELSE GenerateDemoComparison(
            CollectFinalMetrics(
              [e2 EXCEPT !.simulationState.demoPhase = "complete",
                         !.simulationState.demoProgress = 10000,
                         !.simulationState.isRunning = FALSE],
              allocTime))

\* one round of the benchmark loop in the individual phase
IndividualOperation(e, request) ==
  LET t == e.simulationState.currentDemoAllocator
  IN IF t \in AllocatorType
     THEN LET r == Allocate(t, e.allocators[t], request)
              ok == r.ret # NullBlock
          IN [e EXCEPT
                !.allocators[t] = r.a,
                !.successfulAllocations = IF ok THEN @ + 1 ELSE @,
                !.failedAllocations = IF ok THEN @ ELSE @ + 1,
                !.activeRequests =
                   IF Truthy(request.duration) /\ ok
                   THEN ActiveSet(@, ActiveRequest(
                          request, request.timestamp + request.duration, t))
                   ELSE @]
     ELSE e

\* one round of the benchmark loop in the smart phase
SmartOperation(e, request, allocTime) ==
  LET best == SelectOptimalAllocator(e.simulationState.workloadType,
                                     GetAllocatorMetrics(e, allocTime))
      t == best.allocator
      e1 == RefreshAll(e)
  IN IF t \in AllocatorType
     THEN LET r == Allocate(t, e1.allocators[t], request)
              ok == r.ret # NullBlock
              successful == e1.successfulAllocations + (IF ok THEN 1 ELSE 0)
              failed == e1.failedAllocations + (IF ok THEN 0 ELSE 1)
              old == IF SMART_EDGE_ALLOC \in DOMAIN e1.demoResults
                     THEN e1.demoResults[SMART_EDGE_ALLOC]
                     ELSE ZeroSmartMetrics
              usage == old.currentMemoryUsage + (IF ok THEN r.ret.size ELSE 0)
              smartMetrics ==
                [old EXCEPT
                   !.totalAllocations = @ + 1,
                   !.currentMemoryUsage = usage,
                   !.peakMemoryUsage = IF ok THEN Max(@, usage) ELSE @,
                   !.averageAllocationTime = allocTime,
                   !.successRate = (successful * 100) \div (successful + failed)]
          IN [e1 EXCEPT
                !.allocators[t] = UpdateMetrics(r.a),
                !.successfulAllocations = successful,
                !.failedAllocations = failed,
                !.demoResults = ResultsSet(@, SMART_EDGE_ALLOC, smartMetrics),
                !.activeRequests =
                   IF Truthy(request.duration) /\ ok
                   THEN ActiveSet(@, ActiveRequest(
                          request, request.timestamp + request.duration, t))
                   ELSE @]
     ELSE e1

\* the for loop of the benchmark branch of simulationStep from round i on;
\* operationsPerStep is 50, or 5 * speed when fastBenchmarkMode is off
RECURSIVE BenchmarkLoop(_, _, _)
BenchmarkLoop(e, i, allocTime) ==
  IF (e.fastBenchmarkMode /\ i < 50)
     \/ (~e.fastBenchmarkMode /\ 2 * i < e.simulationState.speed)
  THEN IF ~HasMoreOperations(e.workloadGenerator)
       THEN AdvanceDemoSequence(e, allocTime)
       ELSE LET n == GetNextOperation(e.workloadGenerator, 0, 0, 0)
                e1 == [e EXCEPT !.workloadGenerator = n.g]
                phase == e.simulationState.demoPhase
            IN BenchmarkLoop(
                 IF phase = "individual" THEN IndividualOperation(e1, n.ret)
                 ELSE IF phase = "smart"
                      THEN SmartOperation(e1, n.ret, allocTime)
                      ELSE e1,
                 i + 1, allocTime)
  ELSE e

\* what Math.random() decides in one live step: whether a request is made,
\* and its size and duration
NoDraw == [generate |-> FALSE, size |-> 0, duration |-> 0]

\* the live branch of simulationStep
LiveStep(e, now, draw, allocTime) ==
  LET g == GenerateRequest(e.workloadGenerator, e.simulationState.workloadType,
                           now, draw.size, draw.duration)
      e1 == IF draw.generate
            THEN ProcessAllocationRequest(
                   [e EXCEPT !.workloadGenerator = g.g], g.ret)
            ELSE e
  IN IF e1.simulationState.smartMode THEN UpdateSmartSelection(e1, allocTime)
     ELSE e1

\* the last block of simulationStep: the selection is recorded in the smart
\* phase
RecordSmartSelection(e) ==
  IF e.simulationState.demoPhase = "smart"
     /\ e.simulationState.selectedAllocator \in AllocatorType
  THEN [e EXCEPT !.smartSelections =
          Append(@, [allocator |-> e.simulationState.selectedAllocator,
                     size |-> GetCurrentRequest(e.workloadGenerator).size])]
  ELSE e

\* simulationStep(), run at time now
SimulationStep(e, now, draw, allocTime) ==
  LET e1 == CleanupExpiredRequests(
              [e EXCEPT !.simulationState.currentTime = now])
  IN RecordSmartSelection(
       IF e1.simulationState.demoMode THEN BenchmarkLoop(e1, 0, allocTime)
       ELSE LiveStep(e1, now, draw, allocTime))

\* startSequentialDemo(workloadType, operationCount)
StartSequentialDemo(e, v, workloadType, operationCount, now, sizes, durations) ==
  LET r == EngineReset([e EXCEPT !.successfulAllocations = 0,
                                 !.failedAllocations = 0], v)
      e1 == [r.e EXCEPT
               !.simulationState.demoMode = TRUE,
               !.simulationState.workloadType = workloadType,
               !.simulationState.demoPhase = "individual",
               !.simulationState.demoProgress = 0,
               !.simulationState.selectedAllocator = AllocatorTypeValues[1],
               !.simulationState.currentDemoAllocator = AllocatorTypeValues[1],
               !.workloadGenerator =
                  PreGenerateWorkload(@, operationCount, now, sizes, durations)]
  IN EngineStart(e1, r.v)

----------------------------------------------------------------------------
(* The state machine: one strategy instance and its caller *)

VARIABLES
  type,          \* the class of the instance
  alloc,         \* the instance
  requestCounter,\* ids the caller has issued: the next request is req-(n+1)
  last,          \* the last call and what it returned
  everReset,     \* reset() has been called on the instance
  errorLog,      \* the events the instance passed to loggingService.logError
  generator,     \* a WorkloadGenerator and its caller
  replay,        \* what the passes over the generator's sequence returned
  selector,      \* the inputs and results of the SmartEdgeAlloc calls
  engine,        \* a SimulationEngine
  window         \* its window: pending interval timers and the clock

\* the parts of the program other than the strategy instance
partVars == <<generator, replay, selector, engine, window>>

vars == <<type, alloc, requestCounter, last, everReset, errorLog, partVars>>

Call(op, id, size, block, ok) ==
  [op |-> op, id |-> id, size |-> size, block |-> block, ok |-> ok]

\* no pass over a pre-generated sequence has begun
NewReplay == [first |-> <<>>, pass |-> <<>>, rewound |-> FALSE]

\* no SmartEdgeAlloc call has been made on the inputs
NewSelector(workloadType, metricsMap) ==
  [workloadType |-> workloadType, metricsMap |-> metricsMap,
   scores |-> <<>>, best |-> AllocatorScore(NullAllocator, 0)]

\* the instance of class t after construction
InitInstance(t) ==
  /\ type = t
  /\ alloc = NewAllocator(t)
  /\ requestCounter = 0
  /\ last = Call("new", 0, 0, NullBlock, TRUE)
  /\ everReset = FALSE
  /\ errorLog = <<>>

\* the generator, the selector and the engine after construction
InitParts ==
  /\ generator = NewWorkloadGenerator
  /\ replay = NewReplay
  /\ selector = NewSelector(RANDOM, [t \in {} |-> 0])
  /\ engine = NewEngine
  /\ window = NewWindow(0)

Init ==
  /\ \E t \in AllocatorType : InitInstance(t)
  /\ InitParts

\* the caller issues a fresh request and passes it to allocate
DoAllocate(r, req) ==
  /\ alloc' = r.a
  /\ requestCounter' = req.id
  /\ last' = Call("allocate", req.id, req.size, r.ret, r.ret # NullBlock)
  /\ UNCHANGED <<type, everReset, errorLog, partVars>>

DoDeallocate(r, blockId) ==
  /\ alloc' = r.a
  /\ last' = Call("deallocate", blockId, 0, NullBlock, r.ret)
  /\ UNCHANGED <<type, requestCounter, everReset, errorLog, partVars>>

Request(size) == [id |-> requestCounter + 1, size |-> size]

AllocateLinear ==
  /\ type = LINEAR /\ requestCounter < MaxIds
  /\ \E size \in Sizes : DoAllocate(LinearAllocate(alloc, Request(size)), Request(size))

DeallocateLinear ==
  /\ type = LINEAR
  /\ \E id \in Ids : DoDeallocate(LinearDeallocate(alloc, id), id)

AllocateStack ==
  /\ type = STACK /\ requestCounter < MaxIds
  /\ \E size \in Sizes : DoAllocate(StackAllocate(alloc, Request(size)), Request(size))

DeallocateStack ==
  /\ type = STACK
  /\ \E id \in Ids : DoDeallocate(StackDeallocate(alloc, id), id)

AllocatePool ==
  /\ type = POOL /\ requestCounter < MaxIds
  /\ \E size \in Sizes : DoAllocate(PoolAllocate(alloc, Request(size)), Request(size))

DeallocatePool ==
  /\ type = POOL
  /\ \E id \in Ids : DoDeallocate(PoolDeallocate(alloc, id), id)

AllocateFreeList ==
  /\ type = FREE_LIST /\ requestCounter < MaxIds
  /\ \E size \in Sizes : DoAllocate(FreeListAllocate(alloc, Request(size)), Request(size))

DeallocateFreeList ==
  /\ type = FREE_LIST
  /\ \E id \in Ids : DoDeallocate(FreeListDeallocate(alloc, id), id)

AllocateRBTree ==
  /\ type = RB_TREE /\ requestCounter < MaxIds
  /\ \E size \in Sizes : DoAllocate(RBTreeAllocate(alloc, Request(size)), Request(size))

DeallocateRBTree ==
  /\ type = RB_TREE
  /\ \E id \in Ids : DoDeallocate(RBTreeDeallocate(alloc, id), id)

AllocateBuddy ==
  /\ type = BUDDY /\ requestCounter < MaxIds
  /\ \E size \in Sizes : DoAllocate(BuddyAllocate(alloc, Request(size)), Request(size))

DeallocateBuddy ==
  /\ type = BUDDY
  /\ \E id \in Ids : DoDeallocate(BuddyDeallocate(alloc, id), id)

AllocateC ==
  /\ type = C_ALLOCATOR /\ requestCounter < MaxIds
  /\ \E size \in Sizes : DoAllocate(CAllocate(alloc, Request(size)), Request(size))

DeallocateC ==
  /\ type = C_ALLOCATOR
  /\ \E id \in Ids : DoDeallocate(CDeallocate(alloc, id), id)

\* reset()
Reset ==
  /\ alloc' = ResetAllocator(type, alloc)
  /\ last' = Call("reset", 0, 0, NullBlock, TRUE)
  /\ everReset' = TRUE
  /\ UNCHANGED <<type, requestCounter, errorLog, partVars>>

\* getMetrics(): refreshes this.metrics and returns a copy
GetMetrics ==
  /\ alloc' = UpdateMetrics(alloc)
  /\ last' = Call("getMetrics", 0, 0, NullBlock, TRUE)
  /\ UNCHANGED <<type, requestCounter, everReset, errorLog, partVars>>

Next ==
  \/ AllocateLinear \/ DeallocateLinear
  \/ AllocateStack \/ DeallocateStack
  \/ AllocatePool \/ DeallocatePool
  \/ AllocateFreeList \/ DeallocateFreeList
  \/ AllocateRBTree \/ DeallocateRBTree
  \/ AllocateBuddy \/ DeallocateBuddy
  \/ AllocateC \/ DeallocateC
  \/ Reset

Spec == Init /\ [][Next]_vars

\* the same calls, with getMetrics() polled between them
NextMetrics == Next \/ GetMetrics

SpecMetrics == Init /\ [][NextMetrics]_vars

----------------------------------------------------------------------------
(* Properties *)

\* the allocated blocks of the instance, as the allocatedBlocks map holds them
Allocated == DOMAIN alloc.allocatedBlocks

\* [address, address + size) of two blocks intersect
Intersect(b1, b2) ==
  /\ b1.address < b2.address + b2.size
  /\ b2.address < b1.address + b1.size

NoOverlap(a) ==
  \A i, j \in DOMAIN a.allocatedBlocks :
    i # j => ~Intersect(a.allocatedBlocks[i], a.allocatedBlocks[j])

\* C1: for Linear, Stack, Pool, FreeList and BestFit (RBTree), after any
\* sequence of allocate, deallocate and reset calls no two allocated blocks
\* have intersecting [address, address + size) ranges.
C1_NonOverlap ==
  type \in {LINEAR, STACK, POOL, FREE_LIST, RB_TREE} => NoOverlap(alloc)

\* C1 witness: a best-fit arena holding two blocks placed after a release
C1_Witness ==
  /\ type = RB_TREE
  /\ Cardinality(Allocated) = 2
  /\ alloc.metrics.totalDeallocations >= 1
  /\ last.op = "allocate" /\ last.ok

\* C2: on a Buddy arena that was reset, after any sequence of allocate and
\* deallocate calls no two allocated blocks have intersecting ranges.
C2_BuddyNonOverlap ==
  (type = BUDDY /\ everReset) => NoOverlap(alloc)

\* C3: on a CAllocator arena that was reset, no two allocated blocks have
\* intersecting ranges [address, address + size + 16-byte header); the map
\* entry of a block holds that header-inclusive size.
C3_CNonOverlap ==
  (type = C_ALLOCATOR /\ everReset) => NoOverlap(alloc)

\* the free slots of a Pool: getFreeBlockCount()
FreeSlots(a) == Len(a.freeBlockIndices)

\* C4: on a reset arena, FreeList and BestFit keep sum(allocated sizes) +
\* sum(free block sizes) = capacity; Linear and Stack keep bump offset +
\* sum(free block sizes) = capacity; Pool keeps allocated slots + free slots
\* = floor(capacity / blockSize).
C4_Conservation ==
  everReset =>
    /\ type \in {FREE_LIST, RB_TREE} =>
         AllocatedUsage(alloc) + SumSizes(alloc.freeBlocks) = alloc.totalSize
    /\ type = LINEAR =>
         alloc.currentOffset + SumSizes(alloc.freeBlocks) = alloc.totalSize
    /\ type = STACK =>
         alloc.currentTop + SumSizes(alloc.freeBlocks) = alloc.totalSize
    /\ type = POOL =>
         Cardinality(Allocated) + FreeSlots(alloc)
           = alloc.totalSize \div alloc.blockSize

\* C4 witness: a first-fit arena, reset, with a hole between two free blocks
\* and a block still allocated after a release
C4_Witness ==
  /\ type = FREE_LIST /\ everReset
  /\ Cardinality(Allocated) >= 1
  /\ Len(alloc.freeBlocks) = 2
  /\ last.op = "deallocate" /\ last.ok

\* C5: on a Buddy arena that was reset, sum(allocated block sizes) + sum(sizes
\* of the blocks on the per-level free lists) = capacity.
C5_BuddyConservation ==
  (type = BUDDY /\ everReset) =>
    AllocatedUsage(alloc) + SumSizes(ConcatLevels(alloc.freeList))
      = alloc.totalSize

\* the blocks on the size-class lists of a CAllocator, in the order of
\* SIZE_CLASSES
RECURSIVE ClassBlocks(_, _)
ClassBlocks(m, i) ==
  IF i > Len(SIZE_CLASSES) THEN <<>>
  ELSE (IF SIZE_CLASSES[i] \in DOMAIN m THEN m[SIZE_CLASSES[i]] ELSE <<>>)
         \o ClassBlocks(m, i + 1)

\* C6: on a CAllocator arena that was reset, sum(header-inclusive sizes of
\* the allocated blocks) + sum(sizes of the free blocks of the general free
\* list and of the size-class lists) = capacity.
C6_CConservation ==
  (type = C_ALLOCATOR /\ everReset) =>
    AllocatedUsage(alloc) + SumSizes(alloc.freeBlocks)
      + SumSizes(ClassBlocks(alloc.freeListBySizeClass, 1))
      = alloc.totalSize

\* C7: for each of the seven strategies, an allocate call that returns null
\* leaves the instance as it was: allocated blocks, free blocks and lists,
\* bump offset and every metric counter.
C7_FailedAllocateUnchanged ==
  [][(last'.op = "allocate" /\ ~last'.ok) => alloc' = alloc]_vars

\* C7 witness: a size-classed arena holding blocks has just refused a request
C7_Witness ==
  /\ type = C_ALLOCATOR
  /\ last.op = "allocate" /\ ~last.ok
  /\ Cardinality(Allocated) >= 1
  /\ alloc.metrics.totalAllocations >= 1

\* C8: for every strategy, deallocate(id) of an id that is not allocated
\* (never allocated, or already freed) returns false and leaves the instance
\* as it was; so a second deallocate of the same id never succeeds.
C8_UnknownDeallocateRefused ==
  [][(last'.op = "deallocate" /\ last'.id \notin Allocated)
       => (~last'.ok /\ alloc' = alloc)]_vars

\* C8 witness: the only request ever issued was allocated and freed, and a
\* second deallocate of it has just been refused
C8_Witness ==
  /\ type = BUDDY
  /\ requestCounter = 1
  /\ alloc.metrics.totalAllocations = 1
  /\ alloc.metrics.totalDeallocations = 1
  /\ last.op = "deallocate" /\ last.id = 1 /\ ~last.ok

\* the most recently allocated block still outstanding: request ids grow
MostRecent == CHOOSE i \in Allocated : \A j \in Allocated : j <= i

\* C9: for Stack, deallocate(id) succeeds if and only if id is the most
\* recently allocated block still outstanding; for any other id it returns
\* false and changes nothing (stack, top offset, free region, counters).
C9_StackLifo ==
  [][(type = STACK /\ last'.op = "deallocate") =>
       /\ last'.ok <=> (Allocated # {} /\ last'.id = MostRecent)
       /\ ~last'.ok => alloc' = alloc]_vars

\* C9 witness: A then B were allocated, and B then A have been released
C9_Witness ==
  /\ type = STACK
  /\ requestCounter = 2
  /\ alloc.metrics.totalAllocations = 2
  /\ alloc.metrics.totalDeallocations = 2
  /\ Allocated = {}
  /\ last.op = "deallocate" /\ last.id = 1 /\ last.ok

\* C10: for FreeList and BestFit, on an arena with no outstanding blocks,
\* allocate(s) followed immediately by deallocate of that block leaves the
\* free list as exactly one free block {address 0, size capacity}.
C10_RoundTrip ==
  [][(/\ type \in {FREE_LIST, RB_TREE}
      /\ last.op = "allocate" /\ last.ok
      /\ Allocated = {last.id}
      /\ last'.op = "deallocate" /\ last'.ok)
       => alloc'.freeBlocks = <<FreeBlock(0, alloc.totalSize)>>]_vars

\* every level of a Buddy freeList other than `level` holds no block
OnlyLevel(m, level) ==
  \A i \in 1..Len(m) : m[i].level # level => m[i].blocks = <<>>

\* C11: on a Buddy arena that was reset, once every block allocated since has
\* been deallocated, the free lists hold exactly one block, on the maximum
\* level, with address 0 and the size of the whole arena.
C11_BuddyMergeClosure ==
  (/\ type = BUDDY /\ everReset
   /\ last.op = "deallocate" /\ last.ok
   /\ Allocated = {})
    => /\ LevelHas(alloc.freeList, alloc.maxLevel)
       /\ LevelGet(alloc.freeList, alloc.maxLevel)
            = <<FreeBlock(0, alloc.totalSize)>>
       /\ OnlyLevel(alloc.freeList, alloc.maxLevel)

\* an arena with nothing allocated whose free space is one block, the arena
FullyFree(a) ==
  /\ DOMAIN a.allocatedBlocks = {}
  /\ a.freeBlocks = <<FreeBlock(0, a.totalSize)>>

\* the sizes R, 2R, ..., C/2
BuddySizes(R, C) ==
  {x \in 1..(C - 1) : \E k \in 0..CeilLog2(C) : x = R * Pow2(k)}

\* C12: on a fully free Buddy arena (after reset) of capacity C, allocate(s)
\* returns the block {0, R} with R = max(16, least power of two >= s) and
\* leaves free exactly one block of each size R, 2R, ..., C/2.
C12_BuddySplit ==
  [][(/\ type = BUDDY /\ everReset /\ FullyFree(alloc)
      /\ last'.op = "allocate")
       => LET R == BuddyRequiredSize(last'.size)
              free == alloc'.freeBlocks
          IN /\ last'.ok
             /\ last'.block.address = 0 /\ last'.block.size = R
             /\ {free[i].size : i \in 1..Len(free)} = BuddySizes(R, alloc.totalSize)
             /\ Len(free) = Cardinality(BuddySizes(R, alloc.totalSize))]_vars

Fitting(a, size) ==
  {i \in 1..Len(a.freeBlocks) : a.freeBlocks[i].size >= size}

\* C14: FreeList allocate(s) succeeds when a free block of size >= s exists,
\* and returns {A, s} where A is the address of the lowest-addressed such
\* free block; a larger free block keeps its place in the list as
\* {A + s, size - s}, an exact fit is removed from the list.
C14_FirstFit ==
  [][(type = FREE_LIST /\ last'.op = "allocate")
       => /\ last'.ok <=> Fitting(alloc, last'.size) # {}
          /\ last'.ok =>
               LET fits == Fitting(alloc, last'.size)
                   i == CHOOSE k \in fits :
                          \A j \in fits :
                            alloc.freeBlocks[k].address <= alloc.freeBlocks[j].address
                   fb == alloc.freeBlocks[i]
               IN /\ last'.block.address = fb.address
                  /\ last'.block.size = last'.size
                  /\ alloc'.freeBlocks =
                       IF fb.size > last'.size
                       THEN [alloc.freeBlocks EXCEPT
                               ![i] = FreeBlock(fb.address + last'.size,
                                                fb.size - last'.size)]
                       ELSE SpliceOut(alloc.freeBlocks, i - 1)]_vars

\* C14 witness: with two free blocks that fit, the request was placed in the
\* hole at address 0 and filled it, and the free block behind it is untouched
C14_Witness ==
  /\ type = FREE_LIST
  /\ last.op = "allocate" /\ last.ok /\ last.size = 16
  /\ last.block.address = 0
  /\ Cardinality(Allocated) = 3
  /\ Len(alloc.freeBlocks) = 1 /\ alloc.freeBlocks[1].address = 48

\* C18: right after reset(), whatever came before, the instance has no
\* allocated block, every metric counter is zero and the free space is the
\* single block {0, capacity}; for Pool every one of the
\* floor(capacity / blockSize) slots is free, for Buddy the block is the only
\* one on the free lists and sits on level maxLevel, for Linear and Stack the
\* offset is 0.
C18_ResetPostcondition ==
  last.op = "reset" =>
    /\ Allocated = {}
    /\ alloc.metrics = ZeroMetrics
    /\ type # POOL => alloc.freeBlocks = <<FreeBlock(0, alloc.totalSize)>>
    /\ type = POOL =>
         /\ FreeSlots(alloc) = alloc.totalSize \div alloc.blockSize
         /\ {alloc.freeBlockIndices[i] : i \in 1..FreeSlots(alloc)}
              = 0..((alloc.totalSize \div alloc.blockSize) - 1)
         /\ Len(alloc.freeBlocks) = alloc.totalSize \div alloc.blockSize
         /\ \A i \in 1..Len(alloc.freeBlocks) :
              alloc.freeBlocks[i] =
                FreeBlock((i - 1) * alloc.blockSize, alloc.blockSize)
    /\ type = BUDDY =>
         /\ LevelHas(alloc.freeList, alloc.maxLevel)
         /\ LevelGet(alloc.freeList, alloc.maxLevel)
              = <<FreeBlock(0, alloc.totalSize)>>
         /\ OnlyLevel(alloc.freeList, alloc.maxLevel)
    /\ type = RB_TREE =>
         alloc.sortedFreeBlocks = <<FreeBlock(0, alloc.totalSize)>>
    /\ type = C_ALLOCATOR =>
         \A sc \in DOMAIN alloc.freeListBySizeClass :
           alloc.freeListBySizeClass[sc] = <<>>
    /\ type = LINEAR => alloc.currentOffset = 0
    /\ type = STACK => alloc.currentTop = 0 /\ alloc.stack = <<>>

\* C18 witness: a Buddy arena has just been reset after all the request ids
\* were used up
C18_Witness ==
  /\ type = BUDDY
  /\ last.op = "reset"
  /\ requestCounter = MaxIds

\* C17: for every strategy, an allocate call made while the sizes of the
\* allocated blocks plus the size requested exceed the capacity fails,
\* leaves the instance as it was, and passes one out-of-memory event with
\* the size requested and the capacity remaining to the logging service.
C17_OutOfMemoryPolicy ==
  [][(/\ last'.op = "allocate"
      /\ AllocatedUsage(alloc) + last'.size > alloc.totalSize)
       => /\ ~last'.ok
          /\ alloc' = alloc
          /\ errorLog' =
               Append(errorLog,
                      [requested |-> last'.size,
                       remaining |-> alloc.totalSize - AllocatedUsage(alloc)])]_vars

----------------------------------------------------------------------------
(* The WorkloadGenerator and the caller that pre-generates one workload and  *)
(* passes over it.  replay.pass holds what the getNextOperation() calls of   *)
(* the current pass returned from the stored sequence, replay.first what the *)
(* call at each position returned the first time a pass got there, and       *)
(* replay.rewound tells that resetWorkload() began the current pass.         *)

\* how many operations a benchmark pre-generates at most
MaxOps == 2

\* how many requests generateRequest makes at most
MaxRequests == 2

\* the values drawn for Math.random() and Date.now()
SampleSizes == {16, 2048}
SampleDurations == {500, 5000}
SampleTimes == {0, 1000}

InitWorkload == InitInstance(FREE_LIST) /\ InitParts

GeneratorFrame ==
  UNCHANGED <<type, alloc, requestCounter, everReset, errorLog, selector,
              engine, window>>

WPreGenerateWorkload ==
  /\ ~generator.isUsingPregenerated
  /\ \E workloadType \in WorkloadType, count \in 0..MaxOps, now \in SampleTimes :
       \E dr \in PreGenerateDraws(workloadType, count, SampleSizes,
                                  SampleDurations) :
         generator' = PreGenerateWorkload(generator, count, now,
                                          dr.sizes, dr.durations)
  /\ replay' = NewReplay
  /\ last' = Call("preGenerateWorkload", 0, 0, NullBlock, TRUE)
  /\ GeneratorFrame

WResetWorkload ==
  /\ generator' = ResetWorkload(generator)
  /\ replay' = [replay EXCEPT !.pass = <<>>, !.rewound = TRUE]
  /\ last' = Call("resetWorkload", 0, 0, NullBlock, TRUE)
  /\ GeneratorFrame

\* last.ok tells that the request came from the stored sequence
WGetNextOperation ==
  \E now \in SampleTimes,
     size \in GenerateSizes(RANDOM, SampleSizes),
     duration \in GenerateDurations(RANDOM, SampleDurations) :
    LET r == GetNextOperation(generator, now, size, duration)
        stored == HasMoreOperations(generator)
        pass == Append(replay.pass, r.ret)
    IN /\ stored \/ generator.requestCounter < MaxRequests
       /\ generator' = r.g
       /\ replay' = IF stored
                    THEN [replay EXCEPT
                            !.pass = pass,
                            !.first = IF Len(pass) > Len(@) THEN pass ELSE @]
                    ELSE replay
       /\ last' = Call("getNextOperation", 0, 0, NullBlock, stored)
       /\ GeneratorFrame

WReset ==
  /\ generator' = GeneratorReset(generator)
  /\ last' = Call("reset", 0, 0, NullBlock, TRUE)
  /\ UNCHANGED replay
  /\ GeneratorFrame

NextWorkload ==
  \/ WPreGenerateWorkload
  \/ WResetWorkload
  \/ WGetNextOperation
  \/ WReset

SpecWorkload == InitWorkload /\ [][NextWorkload]_vars

\* C15: after preGenerateWorkload(pattern, n), the k-th getNextOperation()
\* call of every pass started by resetWorkload() returns the request (same
\* id, size, timestamp and duration) that the k-th call returned the first
\* time, for every k up to n.
C15_ReplayableWorkload ==
  \A k \in 1..Len(replay.pass) :
    /\ k <= Len(replay.first)
    /\ replay.pass[k] = replay.first[k]

\* C15 witness: a pass begun by resetWorkload() has handed out the whole
\* stored sequence, whose requests differ in size and duration, a second time
C15_Witness ==
  /\ replay.rewound
  /\ Len(generator.preGeneratedWorkload) = MaxOps
  /\ Len(replay.pass) = MaxOps /\ Len(replay.first) = MaxOps
  /\ replay.pass[1].size # replay.pass[2].size
  /\ replay.pass[1].duration # replay.pass[2].duration
  /\ last.op = "getNextOperation" /\ last.ok

----------------------------------------------------------------------------
(* SmartEdgeAlloc and its caller: the workload pattern and the metrics map   *)
(* are the inputs, drawn when the caller is set up; the two calls keep what  *)
(* they return in selector.scores and selector.best.                         *)

\* metrics on each side of every threshold of the two scoring functions
SampleMetrics ==
  {[ZeroMetrics EXCEPT !.fragmentation = fr, !.successRate = sr,
                       !.currentMemoryUsage = u[1], !.wastedSpace = u[2]]
     @@ [averageAllocationTime |-> t] :
     fr \in {5, 40, 60}, sr \in {80, 92, 97, 100},
     u \in {<<0, 0>>, <<100, 0>>, <<80, 20>>}, t \in {5, 70, 200}}

\* the maps drawn: no metrics, metrics for one type, the same metrics for
\* the seven types the engine has allocators for
SampleMetricsMaps ==
  {[t \in {} |-> 0]}
  \cup {[t \in {x} |-> m] : x \in AllocatorType \cup {SMART_EDGE_ALLOC},
                            m \in SampleMetrics}
  \cup {[t \in AllocatorType |-> m] : m \in SampleMetrics}

InitScores ==
  /\ InitInstance(FREE_LIST)
  /\ generator = NewWorkloadGenerator
  /\ replay = NewReplay
  /\ \E workloadType \in WorkloadType, metricsMap \in SampleMetricsMaps :
       selector = NewSelector(workloadType, metricsMap)
  /\ engine = NewEngine
  /\ window = NewWindow(0)

SelectorFrame ==
  UNCHANGED <<type, alloc, requestCounter, everReset, errorLog, generator,
              replay, engine, window>>

SGetAllocatorScores ==
  /\ selector' = [selector EXCEPT
                    !.scores = GetAllocatorScores(selector.workloadType,
                                                  selector.metricsMap)]
  /\ last' = Call("getAllocatorScores", 0, 0, NullBlock, TRUE)
  /\ SelectorFrame

SSelectOptimalAllocator ==
  /\ selector' = [selector EXCEPT
                    !.best = SelectOptimalAllocator(selector.workloadType,
                                                    selector.metricsMap)]
  /\ last' = Call("selectOptimalAllocator", 0, 0, NullBlock, TRUE)
  /\ SelectorFrame

NextScores ==
  \/ SGetAllocatorScores
  \/ SSelectOptimalAllocator

SpecScores == InitScores /\ [][NextScores]_vars

\* C16: for every workload pattern and every metrics map, every score that
\* getAllocatorScores and selectOptimalAllocator return lies in [0, 1], and
\* the list getAllocatorScores returns is in non-increasing score order.
C16_ScoreBounds ==
  /\ \A i \in 1..Len(selector.scores) :
       /\ selector.scores[i].score >= 0
       /\ selector.scores[i].score <= ScoreOne
       /\ i > 1 => selector.scores[i - 1].score >= selector.scores[i].score
  /\ selector.best.score >= 0
  /\ selector.best.score <= ScoreOne

\* C16 witness: both calls have returned for a map whose bonuses push a
\* weight past 1: the list has a score held at 1 and a lower one behind it
C16_Witness ==
  /\ Len(selector.scores) = Len(AllocatorTypeValues)
  /\ selector.best.allocator # NullAllocator
  /\ \E t \in DOMAIN selector.metricsMap :
       /\ t # SMART_EDGE_ALLOC
       /\ AdjustedScore(
            BaseScore(selector.workloadType, IndexOfType(t) + 1),
            ScoreFactors(selector.metricsMap[t])) > ScoreOne
       /\ \E i \in 1..Len(selector.scores) :
            selector.scores[i].allocator = t /\ selector.scores[i].score = ScoreOne
  /\ selector.scores[Len(selector.scores)].score < selector.scores[1].score

----------------------------------------------------------------------------
(* The SimulationEngine, its caller and the timers of its window.  A pending *)
(* timer fires as the action ETick, whose callback runs simulationStep().    *)
(* window.clock is what Date.now() read last: a tick reads one of the        *)
(* sampled instants, never an earlier one than the tick before.              *)
(* window.demos counts the benchmarks the caller has started.                *)

\* how many operations the caller's benchmark has at most
MaxDemoOps == 1

\* how many interval timers are pending at most
MaxTimers == 2

\* how many benchmarks the caller starts at most
MaxDemos == 1

\* the speeds the caller sets, in tenths: below, inside and above [0.1, 10]
SampleSpeeds == {0, 10, 500}

\* the patterns the caller benchmarks
SamplePatterns == {RANDOM, LIFO}

\* performance.now() differences in hundredths of a millisecond
SampleAllocTimes == {5}

InitEngine ==
  /\ InitInstance(FREE_LIST)
  /\ generator = NewWorkloadGenerator
  /\ replay = NewReplay
  /\ selector = NewSelector(RANDOM, [t \in {} |-> 0])
  /\ engine = NewEngine
  /\ \E allocTime \in SampleAllocTimes : window = NewWindow(allocTime)

EngineFrame ==
  UNCHANGED <<type, alloc, requestCounter, everReset, errorLog, generator,
              replay, selector>>

\* the call op has returned r; last.size is its numeric argument and last.ok
\* whether the engine was running when it was made
Returned(op, arg, r) ==
  /\ Cardinality(r.v.timers) <= MaxTimers
  /\ engine' = r.e
  /\ window' = r.v
  /\ last' = Call(op, 0, arg, NullBlock, engine.simulationState.isRunning)
  /\ EngineFrame

EStart == Returned("start", 0, EngineStart(engine, window))

EStop == Returned("stop", 0, EngineStop(engine, window))

EReset == Returned("reset", 0, EngineReset(engine, window))

ESetSpeed ==
  \E speed \in SampleSpeeds :
    Returned("setSpeed", speed, SetSpeed(engine, window, speed))

EStartSequentialDemo ==
  /\ window.demos < MaxDemos
  /\ \E workloadType \in SamplePatterns, operationCount \in 0..MaxDemoOps :
       \E dr \in PreGenerateDraws(workloadType, operationCount, SampleSizes,
                                  SampleDurations) :
         Returned("startSequentialDemo", 0,
                  StartSequentialDemo(engine,
                                      [window EXCEPT !.demos = @ + 1],
                                      workloadType, operationCount,
                                      window.clock, dr.sizes, dr.durations))

\* what Math.random() can decide in a live step at the engine's pattern
LiveDraws ==
  LET workloadType == engine.simulationState.workloadType
  IN {NoDraw}
     \cup {[generate |-> TRUE, size |-> s, duration |-> d] :
             s \in IF engine.workloadGenerator.requestCounter < MaxRequests
                   THEN GenerateSizes(workloadType, SampleSizes) ELSE {},
             d \in GenerateDurations(workloadType, SampleDurations)}

\* a pending timer fires; last.ok tells whether the step made a live request
ETick ==
  /\ \E tm \in window.timers, now \in SampleTimes :
       /\ now >= window.clock
       /\ \E draw \in IF engine.simulationState.demoMode THEN {NoDraw}
                      ELSE LiveDraws :
            /\ engine' = SimulationStep(engine, now, draw, window.allocTime)
            /\ window' = [window EXCEPT !.clock = now]
            /\ last' = Call("tick", 0, 0, NullBlock, draw.generate)
  /\ EngineFrame

NextEngine ==
  \/ EStart
  \/ EStop
  \/ EReset
  \/ ESetSpeed
  \/ EStartSequentialDemo
  \/ ETick

SpecEngine == InitEngine /\ [][NextEngine]_vars

\* C19: after stop() returns, no timer the engine created is still pending,
\* running is false, and a second stop() changes nothing.
C19_StopCancelsTicking ==
  last.op = "stop" =>
    /\ window.timers = {}
    /\ ~engine.simulationState.isRunning
    /\ EngineStop(engine, window) = [e |-> engine, v |-> window]

\* C20: setSpeed(v) stores v clamped into [0.1, 10]; called while running it
\* leaves the engine running with exactly one pending timer, at period
\* max(50, 1000 / speed); called while not running it starts no timer; the
\* allocators, the active requests, the generator and every other field of
\* the simulation state are unchanged.
C20_SetSpeed ==
  [][last'.op = "setSpeed" =>
       /\ engine'.simulationState.speed = Max(1, Min(100, last'.size))
       /\ IF engine.simulationState.isRunning
          THEN /\ engine'.simulationState.isRunning
               /\ Cardinality(window'.timers) = 1
               /\ \A tm \in window'.timers :
                    tm.period = Interval(engine'.simulationState.speed)
          ELSE /\ ~engine'.simulationState.isRunning
               /\ window'.timers = window.timers
       /\ engine'.allocators = engine.allocators
       /\ engine'.activeRequests = engine.activeRequests
       /\ engine'.workloadGenerator = engine.workloadGenerator
       /\ engine'.simulationState =
            [engine.simulationState EXCEPT
               !.speed = engine'.simulationState.speed]]_vars

\* free blocks in strictly increasing address order
AddressOrdered(blocks) ==
  \A i \in 1..(Len(blocks) - 1) : blocks[i].address < blocks[i + 1].address

\* no free block ends where another one begins
NoAdjacentFree(blocks) ==
  \A i, j \in 1..Len(blocks) :
    blocks[i].address + blocks[i].size # blocks[j].address

\* C23: for FreeList and BestFit, after every successful deallocate the free
\* list is in strictly increasing address order and holds no two adjacent
\* free blocks, also when the freed block touches a free predecessor and a
\* free successor.
C23_Coalesced ==
  (type \in {FREE_LIST, RB_TREE} /\ last.op = "deallocate" /\ last.ok) =>
    /\ AddressOrdered(alloc.freeBlocks)
    /\ NoAdjacentFree(alloc.freeBlocks)

ClassSizes == {SIZE_CLASSES[i] : i \in 1..Len(SIZE_CLASSES)}

\* C25: on a CAllocator arena that was reset, a freed block goes onto a
\* size-class free list only if its header-inclusive size is one of the size
\* classes exactly, and then onto the list of that class; a block of any
\* other size goes into the general free list, which then covers it, and
\* the size-class lists stay as they were.
C25_DeallocateRouting ==
  [][(type = C_ALLOCATOR /\ everReset /\ last'.op = "deallocate" /\ last'.ok)
       => LET block == alloc.allocatedBlocks[last'.id]
          IN IF block.size \in ClassSizes
             THEN /\ alloc'.freeListBySizeClass =
                       [alloc.freeListBySizeClass EXCEPT
                          ![block.size] =
                             Append(@, FreeBlock(block.address, block.size))]
                  /\ alloc'.freeBlocks = alloc.freeBlocks
             ELSE /\ alloc'.freeListBySizeClass = alloc.freeListBySizeClass
                  /\ \E i \in 1..Len(alloc'.freeBlocks) :
                       /\ alloc'.freeBlocks[i].address <= block.address
                       /\ block.address + block.size
                            <= alloc'.freeBlocks[i].address
                                 + alloc'.freeBlocks[i].size]_vars

\* C26: a newly constructed strategy answers as one on which reset() was
\* called first: the first allocate call on a new instance returns the block
\* (or the failure) that the same call returns on the instance after reset(),
\* and leaves the instance in the same state.
C26_FreshAsReset ==
  [][(last.op = "new" /\ last'.op = "allocate")
       => LET r == Allocate(type, ResetAllocator(type, alloc),
                            Request(last'.size))
          IN /\ last'.block = r.ret
             /\ alloc' = r.a]_vars

----------------------------------------------------------------------------
(* The benchmark sequence of the engine *)

\* the place of a phase in the sequence individual, smart, complete
PhaseRank(p) ==
  CASE p = "individual" -> 0 [] p = "smart" -> 1 [] p = "complete" -> 2

\* C21: after startSequentialDemo a tick moves the phase forward only, from
\* individual to smart to complete; in the individual phase the allocator
\* under test is one of the seven the engine owns, never SMART_EDGE_ALLOC, a
\* change of it goes to the next in declaration order with that allocator
\* reset and the workload index at 0, and the smart phase follows the pass of
\* the seventh, C_ALLOCATOR, with every allocator reset and the index at 0.
C21_PhaseSequence ==
  [][(engine'.simulationState.demoMode /\ last'.op = "tick") =>
       LET s == engine.simulationState
           t == engine'.simulationState
           c == t.currentDemoAllocator
       IN /\ PhaseRank(t.demoPhase) >= PhaseRank(s.demoPhase)
          /\ PhaseRank(t.demoPhase) <= PhaseRank(s.demoPhase) + 1
          /\ t.demoPhase = "individual" =>
               /\ c \in AllocatorType
               /\ c # s.currentDemoAllocator =>
                    /\ IndexOfType(c) = IndexOfType(s.currentDemoAllocator) + 1
                    /\ engine'.allocators[c] =
                         ResetAllocator(c, engine.allocators[c])
                    /\ engine'.workloadGenerator.workloadIndex = 0
          /\ (s.demoPhase = "individual" /\ t.demoPhase = "smart") =>
               /\ s.currentDemoAllocator = C_ALLOCATOR
               /\ engine'.workloadGenerator.workloadIndex = 0
               /\ \A k \in AllocatorType :
                    engine'.allocators[k] =
                      ResetAllocator(k, engine.allocators[k])]_vars

\* C22: the tick that takes the benchmark from the smart phase to complete
\* leaves the engine not running and no interval timer pending; and while the
\* benchmark is complete and the engine has not been started again, a tick
\* does not change demoResults.
C22_CompleteStops ==
  [][(engine'.simulationState.demoMode /\ last'.op = "tick") =>
       LET s == engine.simulationState
           t == engine'.simulationState
       IN /\ (s.demoPhase = "smart" /\ t.demoPhase = "complete") =>
               /\ ~t.isRunning
               /\ window'.timers = {}
          /\ (s.demoPhase = "complete" /\ ~s.isRunning) =>
               engine'.demoResults = engine.demoResults]_vars

\* C27: a tick of the individual phase that stays in the individual phase
\* leaves every allocator unchanged except the one under test before the tick
\* and the one under test after it (which the tick resets): allocations and
\* the deallocations of expired requests reach no other allocator.
C27_OnlyUnderTest ==
  [][(/\ engine.simulationState.demoMode
      /\ engine.simulationState.demoPhase = "individual"
      /\ engine'.simulationState.demoPhase = "individual"
      /\ last'.op = "tick") =>
       \A k \in AllocatorType \ {engine.simulationState.currentDemoAllocator,
                                 engine'.simulationState.currentDemoAllocator} :
          engine'.allocators[k] = engine.allocators[k]]_vars

\* C28: a tick of the smart phase that pulls operations submits each of them
\* to an allocator of the engine: the pick of selectOptimalAllocator for the
\* first pulled operation is one of the seven allocators the engine owns, and
\* the allocation attempts the engine has counted grow by the number of
\* operations pulled (at most 50, or 5 * speed with fastBenchmarkMode off).
C28_SmartSubmits ==
  [][(/\ engine.simulationState.demoMode
      /\ engine.simulationState.demoPhase = "smart"
      /\ last'.op = "tick"
      /\ HasMoreOperations(engine.workloadGenerator)) =>
       LET e1 == CleanupExpiredRequests(
                   [engine EXCEPT !.simulationState.currentTime = window'.clock])
           best == SelectOptimalAllocator(
                     e1.simulationState.workloadType,
                     GetAllocatorMetrics(e1, window.allocTime))
           perStep == IF engine.fastBenchmarkMode THEN 50
                      ELSE (engine.simulationState.speed + 1) \div 2
           pulled == Min(perStep,
                         Len(engine.workloadGenerator.preGeneratedWorkload)
                           - engine.workloadGenerator.workloadIndex)
       IN /\ best.allocator \in AllocatorType
          /\ engine'.successfulAllocations + engine'.failedAllocations =
               engine.successfulAllocations + engine.failedAllocations + pulled]_vars

----------------------------------------------------------------------------
(* The engine with the benchmark loop slowed down: setFastBenchmarkMode,    *)
(* setSpeed, startSequentialDemo and the timer.  With fastBenchmarkMode off *)
(* a tick pulls 5 * speed operations, so that requests expire between the   *)
(* operations of one pass.                                                  *)

\* the longest pre-generated sequence
MaxSmartOps == 2

\* the speeds that slow the loop down: 0 is clamped to 0.1, one operation a
\* tick; 1.0 gives five
SlowSpeeds == {0, 10}

\* the caller chooses the settings before it starts the benchmark
SSetFastBenchmarkMode ==
  /\ ~engine.simulationState.demoMode
  /\ \E enabled \in BOOLEAN :
       Returned("setFastBenchmarkMode", 0,
                SetFastBenchmarkMode(engine, window, enabled))

SSetSpeed ==
  /\ ~engine.simulationState.demoMode
  /\ \E speed \in SlowSpeeds :
       Returned("setSpeed", speed, SetSpeed(engine, window, speed))

SStartSequentialDemo ==
  /\ window.demos < MaxDemos
  /\ \E operationCount \in 1..MaxSmartOps :
       \E dr \in PreGenerateDraws(RANDOM, operationCount,
                                  SampleSizes, SampleDurations) :
         Returned("startSequentialDemo", 0,
                  StartSequentialDemo(engine,
                                      [window EXCEPT !.demos = @ + 1],
                                      RANDOM, operationCount, window.clock,
                                      dr.sizes, dr.durations))

NextSmart == SSetFastBenchmarkMode \/ SSetSpeed \/ SStartSequentialDemo \/ ETick

SpecSmart == InitEngine /\ [][NextSmart]_vars

\* C29: a tick of the benchmark keeps every entry demoResults has for an
\* allocator of the engine other than the one under test: the snapshot taken
\* when an allocator's own pass ended is what getDemoResults() reports after
\* the smart phase and after the move to complete.
C29_SnapshotsKept ==
  [][(engine.simulationState.demoMode /\ last'.op = "tick") =>
       \A k \in AllocatorType \cap DOMAIN engine.demoResults :
          k # engine.simulationState.currentDemoAllocator =>
            /\ k \in DOMAIN engine'.demoResults
            /\ engine'.demoResults[k] = engine.demoResults[k]]_vars

\* C30: the first tick of the smart phase that submits operations leaves in
\* demoResults[SMART_EDGE_ALLOC] a successRate of 100 * k / n (floor), n the
\* allocation attempts of that tick and k those of them that succeeded,
\* whatever the individual phase has counted.
C30_SmartSuccessRate ==
  [][(/\ engine.simulationState.demoMode
      /\ engine.simulationState.demoPhase = "smart"
      /\ last'.op = "tick"
      /\ SMART_EDGE_ALLOC \notin DOMAIN engine.demoResults
      /\ engine'.successfulAllocations + engine'.failedAllocations >
           engine.successfulAllocations + engine.failedAllocations) =>
       LET k == engine'.successfulAllocations - engine.successfulAllocations
           n == k + engine'.failedAllocations - engine.failedAllocations
       IN /\ SMART_EDGE_ALLOC \in DOMAIN engine'.demoResults
          /\ engine'.demoResults[SMART_EDGE_ALLOC].successRate =
               (100 * k) \div n]_vars

\* the tracked requests that a tick at time now expires and whose block the
\* allocator that holds it gives back
FreedAtExpiry(e, now) ==
  {i \in 1..Len(e.activeRequests) :
     LET entry == e.activeRequests[i]
     IN /\ now >= entry.expiryTime
        /\ entry.allocator \in AllocatorType
        /\ entry.id \in DOMAIN e.allocators[entry.allocator].allocatedBlocks
        /\ entry.id \notin
             DOMAIN Deallocate(entry.allocator, e.allocators[entry.allocator],
                               entry.id).a.allocatedBlocks}

\* C31: a tick of the smart phase in which no allocation succeeds leaves the
\* currentMemoryUsage of demoResults[SMART_EDGE_ALLOC] lower than before when
\* a block allocated in the smart phase is deallocated at expiry, and
\* unchanged when no block is deallocated.
C31_SmartUsage ==
  [][(/\ engine.simulationState.demoMode
      /\ engine.simulationState.demoPhase = "smart"
      /\ last'.op = "tick"
      /\ SMART_EDGE_ALLOC \in DOMAIN engine.demoResults
      /\ engine'.successfulAllocations = engine.successfulAllocations) =>
       LET old == engine.demoResults[SMART_EDGE_ALLOC].currentMemoryUsage
           new == engine'.demoResults[SMART_EDGE_ALLOC].currentMemoryUsage
       IN IF FreedAtExpiry(engine, window'.clock) = {} THEN new = old
          ELSE new < old]_vars

----------------------------------------------------------------------------
(* The engine running one benchmark after another: startSequentialDemo and  *)
(* the timer                                                                *)

\* the benchmarks a behaviour starts
MaxReruns == 2

RStartSequentialDemo ==
  /\ window.demos < MaxReruns
  /\ \E workloadType \in SamplePatterns, operationCount \in 0..MaxDemoOps :
       \E dr \in PreGenerateDraws(workloadType, operationCount,
                                  SampleSizes, SampleDurations) :
         Returned("startSequentialDemo", 0,
                  StartSequentialDemo(engine,
                                      [window EXCEPT !.demos = @ + 1],
                                      workloadType, operationCount,
                                      window.clock, dr.sizes, dr.durations))

NextRerun == RStartSequentialDemo \/ ETick

SpecRerun == InitEngine /\ [][NextRerun]_vars

\* C32: startSequentialDemo called on an engine whose benchmark is complete
\* leaves demoResults without any entry, for an allocator or for
\* SMART_EDGE_ALLOC: what getDemoResults() reports from then on is measured
\* in the new run.
C32_CleanResults ==
  [][(/\ last'.op = "startSequentialDemo"
      /\ engine.simulationState.demoMode
      /\ engine.simulationState.demoPhase = "complete") =>
       DOMAIN engine'.demoResults = {}]_vars

----------------------------------------------------------------------------
(* The engine in live mode: start, stop, setSmartMode, setSelectedAllocator *)
(* and the timer, with ticks far enough apart for live requests to expire   *)

\* the times Date.now() returns in live mode
LiveTimes == {0, 6000}

\* the allocators setSelectedAllocator is called with
SampleSelections == {LINEAR, FREE_LIST}

LSetSmartMode ==
  \E enabled \in BOOLEAN :
    Returned("setSmartMode", 0, SetSmartMode(engine, window, enabled))

LSetSelectedAllocator ==
  \E allocator \in SampleSelections :
    Returned("setSelectedAllocator", 0,
             SetSelectedAllocator(engine, window, allocator))

\* a pending timer fires; last.ok tells whether the step made a live request
LTick ==
  /\ \E tm \in window.timers, now \in LiveTimes :
       /\ now >= window.clock
       /\ \E draw \in LiveDraws :
            /\ engine' = SimulationStep(engine, now, draw, window.allocTime)
            /\ window' = [window EXCEPT !.clock = now]
            /\ last' = Call("tick", 0, 0, NullBlock, draw.generate)
  /\ EngineFrame

NextLive == EStart \/ EStop \/ LSetSmartMode \/ LSetSelectedAllocator \/ LTick

SpecLive == InitEngine /\ [][NextLive]_vars

\* C33: a tick of live mode with smartMode on leaves in selectedAllocator the
\* pick of selectOptimalAllocator for the workload type and the metrics the
\* allocators have after the tick, one of the seven allocators of the engine;
\* a tick with smartMode off leaves selectedAllocator as it was.
C33_LiveSelection ==
  [][(last'.op = "tick" /\ ~engine.simulationState.demoMode) =>
       IF engine.simulationState.smartMode
       THEN /\ engine'.simulationState.selectedAllocator =
                 SelectOptimalAllocator(
                   engine'.simulationState.workloadType,
                   GetAllocatorMetrics(engine', window.allocTime)).allocator
            /\ engine'.simulationState.selectedAllocator \in AllocatorType
       ELSE engine'.simulationState.selectedAllocator =
              engine.simulationState.selectedAllocator]_vars

\* C34: in live mode every block allocated in an allocator other than Linear
\* belongs to a request activeRequests still tracks: once a request has
\* expired and has been dropped from activeRequests, no block with its id
\* remains allocated in the allocators that deallocate single blocks.
C34_ExpiredFreed ==
  ~engine.simulationState.demoMode =>
    \A t \in AllocatorType \ {LINEAR} :
      \A id \in DOMAIN engine.allocators[t].allocatedBlocks :
        \E i \in 1..Len(engine.activeRequests) :
          engine.activeRequests[i].id = id

----------------------------------------------------------------------------
(* A benchmark left to run: the settings are chosen, startSequentialDemo is *)
(* called and from then on only the timer acts; the interval timer of the   *)
(* window keeps firing while it is pending                                  *)

BStartSequentialDemo ==
  /\ window.demos < MaxDemos
  /\ \E workloadType \in SamplePatterns, operationCount \in 0..MaxSmartOps :
       \E dr \in PreGenerateDraws(workloadType, operationCount,
                                  SampleSizes, SampleDurations) :
         Returned("startSequentialDemo", 0,
                  StartSequentialDemo(engine,
                                      [window EXCEPT !.demos = @ + 1],
                                      workloadType, operationCount,
                                      window.clock, dr.sizes, dr.durations))

NextBenchmark ==
  SSetFastBenchmarkMode \/ SSetSpeed \/ BStartSequentialDemo \/ ETick

\* ENABLED <<ETick>>_vars as a state predicate: a pending timer can fire at a
\* time the clock can show and the step changes the state
TickEnabled ==
  \E tm \in window.timers, now \in SampleTimes :
    /\ now >= window.clock
    /\ \E draw \in IF engine.simulationState.demoMode THEN {NoDraw}
                   ELSE LiveDraws :
         <<SimulationStep(engine, now, draw, window.allocTime),
           [window EXCEPT !.clock = now],
           Call("tick", 0, 0, NullBlock, draw.generate)>>
           # <<engine, window, last>>

\* weak fairness of the tick, the two disjuncts of WF_vars(ETick): the
\* interval timer fires again and again for as long as it is pending
TickFairness == []<>(~TickEnabled) \/ []<><<ETick>>_vars

SpecBenchmark == InitEngine /\ [][NextBenchmark]_vars /\ TickFairness

\* C35: a benchmark that is started and left to the timer reaches the phase
\* complete with demoProgress 100, whatever the workload type and the number
\* of operations, and no tick on the way lowers demoProgress.
C35_BenchmarkTerminates ==
  /\ [][(engine.simulationState.demoMode /\ last'.op = "tick") =>
          engine'.simulationState.demoProgress >=
            engine.simulationState.demoProgress]_vars
  /\ engine.simulationState.demoMode ~>
       (/\ engine.simulationState.demoPhase = "complete"
        /\ engine.simulationState.demoProgress = 10000)

\* a benchmark of two operations, pulled one a tick, has completed
C35_Witness ==
  /\ engine.simulationState.demoMode
  /\ engine.simulationState.demoPhase = "complete"
  /\ engine.simulationState.demoProgress = 10000
  /\ ~engine.fastBenchmarkMode
  /\ engine.simulationState.speed = 1
  /\ Len(engine.workloadGenerator.preGeneratedWorkload) = 2
  /\ Cardinality(DOMAIN engine.demoResults) = 8

\* C36: after reset() the engine is not running and not in benchmark mode
\* (demoMode is off), so that the ticks of a following start() take the live
\* branch of simulationStep.
C36_ResetToIdle ==
  last.op = "reset" =>
    /\ ~engine.simulationState.isRunning
    /\ ~engine.simulationState.demoMode

\* C37: once both calls have returned for the same workload type and metrics
\* map, selectOptimalAllocator's result has the allocator and the score of
\* the first element of the list getAllocatorScores returned.
C37_BestIsFirst ==
  (selector.scores # <<>> /\ selector.best.allocator # NullAllocator) =>
    /\ selector.best.allocator = selector.scores[1].allocator
    /\ selector.best.score = selector.scores[1].score

\* ---------------------------------------------------------------------------
\* One allocator polled with getMetrics(): a caller issuing up to
\* MaxGaugeIds requests of the sizes GaugeSizes to an instance of any class,
\* releasing blocks, resetting, and reading the metrics between the calls.
MaxGaugeIds == 3

GaugeSizes == {16, 100}

GAllocate ==
  /\ requestCounter < MaxGaugeIds
  /\ \E size \in GaugeSizes :
       DoAllocate(Allocate(type, alloc, Request(size)), Request(size))

GDeallocate ==
  \E id \in 1..MaxGaugeIds : DoDeallocate(Deallocate(type, alloc, id), id)

NextGauge == GAllocate \/ GDeallocate \/ Reset \/ GetMetrics

SpecGauge == Init /\ [][NextGauge]_vars

\* C38: when getMetrics() is called right after an allocate call that
\* failed, with no successful allocate or deallocate counted since the last
\* reset (or since construction), the successRate it returns is below 100.
C38_FailuresCounted ==
  [][(/\ last.op = "allocate" /\ ~last.ok
      /\ alloc.metrics.totalAllocations = 0
      /\ alloc.metrics.totalDeallocations = 0
      /\ last'.op = "getMetrics")
     => alloc'.metrics.successRate < 100]_vars

\* C39: when getMetrics() returns after at least one allocate has succeeded
\* since the last reset, the peakMemoryUsage it reports is at least the
\* smallest usage a successful allocate can have produced, hence positive,
\* whether or not getMetrics() was called while the block was allocated.
C39_PeakIsHighWater ==
  (last.op = "getMetrics" /\ alloc.metrics.totalAllocations > 0) =>
    alloc.metrics.peakMemoryUsage > 0

\* C40: the sequence preGenerateWorkload stored for a LIFO benchmark gives
\* every request a defined lifetime (a number, not undefined and not NaN),
\* and each later request a lifetime strictly smaller than the one before.
C40_LifoShrinks ==
  (engine.simulationState.demoMode
   /\ engine.simulationState.workloadType = LIFO) =>
    LET w == engine.workloadGenerator.preGeneratedWorkload
    IN /\ \A i \in 1..Len(w) : w[i].duration \notin {Undefined, NaN}
       /\ \A i \in 1..(Len(w) - 1) : w[i + 1].duration < w[i].duration

============================================================================
